---- MODULE Spec2Model ----
(***************************************************************************)
(* Authentication and session security of the PlayCricket backend:         *)
(* AuthService (login state machine, refresh-token rotation, password      *)
(* reset, MFA), UserService (password change, status update) and the       *)
(* get_current_user dependency, over the tables of app/models/auth.py.     *)
(*                                                                         *)
(* Time is counted in minutes.  Strings that the code hashes (secure       *)
(* random tokens, JWT strings, backup codes) are natural numbers below     *)
(* 1000000; hash_token maps them injectively above it.  Columns that no    *)
(* modelled operation reads (name, phone, device data, last_login_at,      *)
(* created_at) are left out of the rows.                                   *)
(***************************************************************************)
EXTENDS Integers, Sequences, FiniteSets, TLC

\* ------------------------------------------------------------------ bounds
MaxTokens == 4          \* rows of refresh_tokens
MaxAudit == 9           \* rows of audit_log
MaxTicks == 2           \* clock advances
MaxPwdVersion == 3      \* largest password_version
MaxResetTokens == 2     \* rows of password_reset_tokens
MaxUsers == 3           \* rows of users
MaxEmailTokens == 4     \* rows of email_verification_tokens
MaxRevokeAudit == 7     \* audit rows at which the revocation scenario ends
MaxVersionAudit == 6    \* audit rows at which the password-version scenario ends
MaxSessions == 2        \* refresh rows at a login of the locked-account check
MaxStatusAudit == 4     \* audit rows up to which the status scenario registers and resets

\* ------------------------------------------------------- program constants
MAX_FAILED_LOGIN_ATTEMPTS == 5
ACCOUNT_LOCKOUT_DURATION_MINUTES == 30
EMAIL_VERIFICATION_TOKEN_EXPIRY_HOURS == 24
PASSWORD_RESET_TOKEN_EXPIRY_HOURS == 1
ACCESS_TOKEN_EXPIRE_MINUTES == 15
REFRESH_TOKEN_EXPIRE_DAYS == 30

NULL == -1              \* Python None / SQL NULL

\* UserStatus
ACTIVE == "active"
LOCKED == "locked"
PENDING == "pending"

VARIABLES
    users,           \* table users: sequence of rows, id = index
    refresh_tokens,  \* table refresh_tokens: sequence of rows, id = index
    reset_tokens,    \* table password_reset_tokens: sequence of rows
    email_tokens,    \* table email_verification_tokens: sequence of rows
    audit_log,       \* table audit_log: sequence of rows
    now,             \* datetime.utcnow(), minutes
    issued_refresh,  \* refresh JWTs handed to clients, by jti
    issued_access,   \* access JWTs handed to clients
    returned_for,    \* per issued refresh JWT: the jti whose refresh returned it
    last,            \* the response of the last request
    inflight         \* per caller: its refresh request between reads and commit

vars == <<users, refresh_tokens, reset_tokens, email_tokens, audit_log, now,
          issued_refresh, issued_access, returned_for, last, inflight>>

\* ---------------------------------------------------------------- helpers
Range(s) == {s[i] : i \in DOMAIN s}

\* str.lower() on the e-mail addresses the model uses
Lower(email) ==
    CASE email = "A@x.com" -> "a@x.com"
      [] email = "B@x.com" -> "b@x.com"
      [] OTHER -> email

Emails == {"a@x.com", "A@x.com", "b@x.com", "c@x.com"}

\* passwords and their lengths
Passwords == {"Secret123!", "Another456?", "short"}
PasswordLen(p) ==
    CASE p = "Secret123!" -> 10
      [] p = "Another456?" -> 11
      [] OTHER -> 5

\* validate_password_strength(p)["valid"]: no error was appended
validate_password_strength(p) == ~(PasswordLen(p) < 8) /\ ~(PasswordLen(p) > 128)

\* hash_password / verify_password / needs_rehash: the hash carries the
\* password it was made from and whether its parameters are the current ones
hash_password(p) == [pw |-> p, outdated |-> FALSE]
verify_password(p, h) == h.pw = p
needs_rehash(h) == h.outdated

\* hash_token: SHA-256 hex digest, injective and never equal to its input
hash_token(s) == 1000000 + s

\* the string of a JWT, determined by its random jti
JwtString(tok) == 2000 + tok.jti
\* the string of the n-th secure random token
generate_secure_token(n) == 4000 + n

AuditRow(uid, action, status) == [user_id |-> uid, action |-> action, status |-> status]

\* a response: the operation, the user it concerned, the error code or "OK",
\* the jti of the refresh JWT it presented and of the one it returned
Response(op, uid, code) ==
    [op |-> op, user |-> uid, code |-> code, arg |-> NULL, token |-> NULL]

\* the user row with this (lower-cased) e-mail, or NULL
UserByEmail(e) ==
    IF \E i \in DOMAIN users : users[i].email = e
    THEN CHOOSE i \in DOMAIN users : users[i].email = e
    ELSE NULL

\* number of clock advances behind `now`
RefreshLifetime == REFRESH_TOKEN_EXPIRE_DAYS * 24 * 60
Ticks(t) == (t \div RefreshLifetime) + ((t % RefreshLifetime) \div ACCOUNT_LOCKOUT_DURATION_MINUTES)

\* ------------------------------------------------------------- token codec
\* create_access_token / create_refresh_token: the claims of the JWT and the
\* key that signed it
create_access_token(uid, ver) ==
    [sub |-> uid, ver |-> ver, jti |-> NULL, type |-> "access", key |-> "access",
     exp |-> now + ACCESS_TOKEN_EXPIRE_MINUTES]
create_refresh_token(uid, ver, jti) ==
    [sub |-> uid, ver |-> ver, jti |-> jti, type |-> "refresh", key |-> "refresh",
     exp |-> now + RefreshLifetime]

\* jwt.decode with the key of the kind, then the type check; expiry as jose
\* checks it (exp < now)
verify_access_token(tok) ==
    tok.key = "access" /\ ~(tok.exp < now) /\ tok.type = "access"
verify_refresh_token(tok) ==
    tok.key = "refresh" /\ ~(tok.exp < now) /\ tok.type = "refresh"

\* a validity test that looks at the expiry only
is_valid_expiry_only(row) == row.expires_at > now

\* RefreshToken.is_valid
is_valid(row) == row.revoked_at = NULL /\ row.expires_at > now

\* the primary key of an object added to the session and not yet flushed
\* (autoflush=False, no flush() before the read)
UnflushedId(nextId) == NULL

RefreshRow(uid, tok) ==
    [user_id |-> uid, token_hash |-> hash_token(JwtString(tok)), jti |-> tok.jti,
     expires_at |-> tok.exp, revoked_at |-> NULL, replaced_by |-> NULL]

\* the JWTs a client can present: everything ever issued
PresentableTokens == Range(issued_refresh) \cup issued_access

\* ---------------------------------------------------------------- MFA engine
\* the TOTP of a secret at a 30-second time step
Totp(secret, step) == 100000 + ((secret * 7919 + step * 31) % 900000)
TimeStep(t) == 2 * t

\* validate_totp_code_format: six digits
validate_totp_code_format(code) == code >= 100000 /\ code <= 999999
\* verify_totp_code: pyotp verify with valid_window=1
verify_totp_code(secret, code) ==
    \E d \in {-1, 0, 1} : code = Totp(secret, TimeStep(now) + d)

\* backup codes: 10..99 stand for the codes "XXXX-XXXX", c + 100 for the same
\* code typed without its dash
RemoveDash(c) == IF c >= 10 /\ c <= 99 THEN c + 100 ELSE c
hash_backup_codes(codes) == {hash_token(RemoveDash(c)) : c \in codes}
verify_backup_code(code, hashed) == hash_token(RemoveDash(code)) \in hashed

\* verify_mfa_code: TOTP first, then the backup codes
verify_mfa_code(secret, code, backup_codes) ==
    IF validate_totp_code_format(code) /\ verify_totp_code(secret, code)
    THEN [valid |-> TRUE, method |-> "totp", backup_code_used |-> NULL]
    ELSE IF backup_codes # {} /\ verify_backup_code(code, backup_codes)
    THEN [valid |-> TRUE, method |-> "backup_code", backup_code_used |-> code]
    ELSE [valid |-> FALSE, method |-> NULL, backup_code_used |-> NULL]

\* -------------------------------------------------------------------- login
\* the fields of the UserLogin schema (app/schemas/auth.py)
UserLogin(email, password, otp) == [email |-> email, password |-> password, otp |-> otp]

\* the status block of authenticate_user: the row after the unlock of an
\* expired lock
StillLocked(u) ==
    u.status = LOCKED /\ u.locked_until # NULL /\ u.locked_until > now
AfterUnlock(u) ==
    IF u.status = LOCKED /\ ~StillLocked(u)
    THEN [u EXCEPT !.status = ACTIVE, !.failed_login_attempts = 0, !.locked_until = NULL]
    ELSE u

\* a wrong-password block that locks one attempt too late
AfterFailedAttemptLate(u) ==
    LET n == u.failed_login_attempts + 1
    IN IF n > MAX_FAILED_LOGIN_ATTEMPTS
       THEN [u EXCEPT !.failed_login_attempts = n, !.status = LOCKED,
                      !.locked_until = now + ACCOUNT_LOCKOUT_DURATION_MINUTES]
       ELSE [u EXCEPT !.failed_login_attempts = n]

\* the wrong-password block of authenticate_user
AfterFailedAttempt(u) ==
    LET n == u.failed_login_attempts + 1
    IN IF n >= MAX_FAILED_LOGIN_ATTEMPTS
       THEN [u EXCEPT !.failed_login_attempts = n, !.status = LOCKED,
                      !.locked_until = now + ACCOUNT_LOCKOUT_DURATION_MINUTES]
       ELSE [u EXCEPT !.failed_login_attempts = n]

\* a login that rehashes an outdated hash and leaves password_version alone
AfterSuccessSameVersion(u, password) ==
    LET h == IF needs_rehash(u.password_hash)
             THEN [u EXCEPT !.password_hash = hash_password(password)]
             ELSE u
    IN [h EXCEPT !.failed_login_attempts = 0]

\* the success block of authenticate_user: rehash, counter reset
AfterSuccess(u, password) ==
    LET h == IF needs_rehash(u.password_hash)
             THEN [u EXCEPT !.password_hash = hash_password(password),
                            !.password_version = u.password_version + 1]
             ELSE u
    IN [h EXCEPT !.failed_login_attempts = 0]

\* a request that ends in an exception before any commit: get_db rolls back
Rejected(op, uid, code) ==
    /\ last' = Response(op, uid, code)
    /\ UNCHANGED <<users, refresh_tokens, reset_tokens, email_tokens, audit_log, now,
                   issued_refresh, issued_access, returned_for, inflight>>

\* a request that commits user changes and one audit row, then raises
FailedWithAudit(op, uid, code, newUsers, row) ==
    /\ Len(audit_log) < MaxAudit
    /\ users' = newUsers
    /\ audit_log' = Append(audit_log, row)
    /\ last' = Response(op, uid, code)
    /\ UNCHANGED <<refresh_tokens, reset_tokens, email_tokens, now, issued_refresh, issued_access,
                   returned_for, inflight>>

LoginSuccess(uid, u, password) ==
    LET u2 == AfterSuccess(u, password)
        jti == Len(issued_refresh) + 1
        rt == create_refresh_token(uid, u2.password_version, jti)
    IN /\ Len(audit_log) < MaxAudit
       /\ Len(refresh_tokens) < MaxTokens
       /\ u2.password_version <= MaxPwdVersion
       /\ users' = [users EXCEPT ![uid] = u2]
       /\ refresh_tokens' = Append(refresh_tokens, RefreshRow(uid, rt))
       /\ issued_refresh' = Append(issued_refresh, rt)
       /\ returned_for' = Append(returned_for, NULL)
       /\ issued_access' = issued_access \cup {create_access_token(uid, u2.password_version)}
       /\ audit_log' = Append(audit_log, AuditRow(uid, "LOGIN_SUCCESS", "success"))
       /\ last' = [Response("login", uid, "OK") EXCEPT !.token = jti]
       /\ UNCHANGED <<reset_tokens, email_tokens, now, inflight>>

\* the MFA block of authenticate_user, entered with the password verified
LoginMfa(uid, u, login) ==
    IF "otp_code" \notin DOMAIN login
    THEN \* login.otp_code: UserLogin has no such field, AttributeError
         Rejected("login", uid, "INTERNAL_ERROR")
    ELSE IF login.otp_code = NULL
    THEN Rejected("login", uid, "MFA_REQUIRED")
    ELSE LET v == verify_mfa_code(u.mfa_secret, login.otp_code, u.backup_codes)
         IN IF ~v.valid
            THEN FailedWithAudit("login", uid, "INVALID_MFA_CODE",
                                 [users EXCEPT ![uid] = u],
                                 AuditRow(uid, "MFA_FAILED", "failure"))
            ELSE LoginSuccess(uid,
                     IF v.backup_code_used # NULL
                     THEN [u EXCEPT !.backup_codes =
                              {c \in u.backup_codes : c # v.backup_code_used}]
                     ELSE u,
                     login.password)

\* a login that looks at the password before it looks at the pending status
authenticate_user_password_first(login) ==
    LET uid == UserByEmail(Lower(login.email))
    IN IF uid = NULL
       THEN FailedWithAudit("login", NULL, "INVALID_CREDENTIALS", users,
                            AuditRow(NULL, "LOGIN_FAILED", "failure"))
       ELSE LET u0 == users[uid]
                u == AfterUnlock(u0)
            IN IF StillLocked(u0)
               THEN Rejected("login", uid, "ACCOUNT_LOCKED")
               ELSE IF ~verify_password(login.password, u.password_hash)
               THEN FailedWithAudit("login", uid, "INVALID_CREDENTIALS",
                                    [users EXCEPT ![uid] = AfterFailedAttempt(u)],
                                    AuditRow(uid, "LOGIN_FAILED", "failure"))
               ELSE IF u.status = PENDING
               THEN Rejected("login", uid, "EMAIL_NOT_VERIFIED")
               ELSE IF u.mfa_enabled
               THEN LoginMfa(uid, u, login)
               ELSE LoginSuccess(uid, u, login.password)

\* AuthService.authenticate_user behind POST /auth/login
authenticate_user(login) ==
    LET uid == UserByEmail(Lower(login.email))
    IN IF uid = NULL
       THEN FailedWithAudit("login", NULL, "INVALID_CREDENTIALS", users,
                            AuditRow(NULL, "LOGIN_FAILED", "failure"))
       ELSE LET u0 == users[uid]
                u == AfterUnlock(u0)
            IN IF StillLocked(u0)
               THEN Rejected("login", uid, "ACCOUNT_LOCKED")
               ELSE IF u.status = PENDING
               THEN Rejected("login", uid, "EMAIL_NOT_VERIFIED")
               ELSE IF ~verify_password(login.password, u.password_hash)
               THEN FailedWithAudit("login", uid, "INVALID_CREDENTIALS",
                                    [users EXCEPT ![uid] = AfterFailedAttempt(u)],
                                    AuditRow(uid, "LOGIN_FAILED", "failure"))
               ELSE IF u.mfa_enabled
               THEN LoginMfa(uid, u, login)
               ELSE LoginSuccess(uid, u, login.password)

\* ------------------------------------------------------------------ refresh
\* AuthService._revoke_token_family: the rows after the family of token_id
\* is revoked
revoke_token_family(token_id, user_id) ==
    LET tokens == {i \in DOMAIN refresh_tokens :
                      /\ refresh_tokens[i].user_id = user_id
                      /\ (i = token_id \/ refresh_tokens[i].replaced_by = token_id)}
        all_token_ids == {token_id} \cup tokens \cup
                         {refresh_tokens[i].replaced_by : i \in
                             {k \in tokens : refresh_tokens[k].replaced_by # NULL}}
    IN [i \in DOMAIN refresh_tokens |->
           IF i \in all_token_ids /\ refresh_tokens[i].revoked_at = NULL
           THEN [refresh_tokens[i] EXCEPT !.revoked_at = now]
           ELSE refresh_tokens[i]]

\* the row with the hash of the presented token, for the token's user
TokenRecord(tok) ==
    LET hits == {i \in DOMAIN refresh_tokens :
                    /\ refresh_tokens[i].token_hash = hash_token(JwtString(tok))
                    /\ refresh_tokens[i].user_id = tok.sub}
    IN IF hits = {} THEN NULL ELSE CHOOSE i \in hits : TRUE

\* the reuse query: a row with the token's jti that was replaced
ReusedToken(tok) ==
    LET hits == {i \in DOMAIN refresh_tokens :
                    /\ refresh_tokens[i].jti = tok.jti
                    /\ refresh_tokens[i].user_id = tok.sub
                    /\ refresh_tokens[i].replaced_by # NULL}
    IN IF hits = {} THEN NULL ELSE CHOOSE i \in hits : TRUE

\* a refused refresh that revokes the row of the token it was shown
RefreshRejectedRevoking(tok, code) ==
    /\ last' = [Response("refresh", tok.sub, code) EXCEPT !.arg = tok.jti]
    /\ refresh_tokens' = IF TokenRecord(tok) = NULL THEN refresh_tokens
                         ELSE [refresh_tokens EXCEPT ![TokenRecord(tok)].revoked_at = now]
    /\ UNCHANGED <<users, reset_tokens, email_tokens, audit_log, now,
                   issued_refresh, issued_access, returned_for>>

\* a refresh that raises before any write: nothing is committed
RefreshRejected(tok, code) ==
    /\ last' = [Response("refresh", tok.sub, code) EXCEPT !.arg = tok.jti]
    /\ UNCHANGED <<users, refresh_tokens, reset_tokens, email_tokens, audit_log, now,
                   issued_refresh, issued_access, returned_for>>

\* the reuse branch: family revoked, audit row, commit, error
RefreshReuse(tok, reused) ==
    /\ Len(audit_log) < MaxAudit
    /\ refresh_tokens' = revoke_token_family(reused, tok.sub)
    /\ audit_log' = Append(audit_log,
                           AuditRow(tok.sub, "TOKEN_REUSE_DETECTED", "security_alert"))
    /\ last' = [Response("refresh", tok.sub, "TOKEN_REUSE_DETECTED") EXCEPT !.arg = tok.jti]
    /\ UNCHANGED <<users, reset_tokens, email_tokens, now, issued_refresh, issued_access, returned_for>>

\* the checks of a refresh that does not compare password versions
RefreshCheckUnfenced(tok) ==
    IF ~verify_refresh_token(tok) THEN "INVALID_REFRESH_TOKEN"
    ELSE IF TokenRecord(tok) = NULL \/ ~is_valid(refresh_tokens[TokenRecord(tok)])
    THEN IF ReusedToken(tok) # NULL THEN "TOKEN_REUSE_DETECTED" ELSE "INVALID_REFRESH_TOKEN"
    ELSE IF tok.sub \notin DOMAIN users \/ users[tok.sub].status # ACTIVE
    THEN "ACCOUNT_NOT_ACTIVE"
    ELSE "PASS"

\* the checks of refresh_access_token up to the password-version check:
\* "PASS" or the error code of the check that fails
RefreshCheck(tok) ==
    IF ~verify_refresh_token(tok) THEN "INVALID_REFRESH_TOKEN"
    ELSE IF TokenRecord(tok) = NULL \/ ~is_valid(refresh_tokens[TokenRecord(tok)])
    THEN IF ReusedToken(tok) # NULL THEN "TOKEN_REUSE_DETECTED" ELSE "INVALID_REFRESH_TOKEN"
    ELSE IF tok.sub \notin DOMAIN users \/ users[tok.sub].status # ACTIVE
    THEN "ACCOUNT_NOT_ACTIVE"
    ELSE IF tok.ver # users[tok.sub].password_version
    THEN "PASSWORD_CHANGED"
    ELSE "PASS"

\* a rotation that commits the new row and leaves the old row as it was
RefreshRotateTorn(tok, token_record, password_version) ==
    LET jti == Len(issued_refresh) + 1
        rt == create_refresh_token(tok.sub, password_version, jti)
    IN /\ Len(refresh_tokens) < MaxTokens
       /\ refresh_tokens' = Append(refresh_tokens, RefreshRow(tok.sub, rt))
       /\ issued_refresh' = Append(issued_refresh, rt)
       /\ returned_for' = Append(returned_for, tok.jti)
       /\ issued_access' = issued_access \cup {create_access_token(tok.sub, password_version)}
       /\ last' = [Response("refresh", tok.sub, "OK") EXCEPT !.arg = tok.jti, !.token = jti]
       /\ UNCHANGED <<users, reset_tokens, email_tokens, audit_log, now>>

\* the rotation writes of refresh_access_token and their commit: the new row,
\* then the old row marked replaced and revoked
RefreshRotate(tok, token_record, password_version) ==
    LET jti == Len(issued_refresh) + 1
        rt == create_refresh_token(tok.sub, password_version, jti)
        new_id == Len(refresh_tokens) + 1
    IN /\ Len(refresh_tokens) < MaxTokens
       /\ refresh_tokens' =
              Append([refresh_tokens EXCEPT
                         ![token_record].replaced_by = UnflushedId(new_id),
                         ![token_record].revoked_at = now],
                     RefreshRow(tok.sub, rt))
       /\ issued_refresh' = Append(issued_refresh, rt)
       /\ returned_for' = Append(returned_for, tok.jti)
       /\ issued_access' = issued_access \cup {create_access_token(tok.sub, password_version)}
       /\ last' = [Response("refresh", tok.sub, "OK") EXCEPT !.arg = tok.jti, !.token = jti]
       /\ UNCHANGED <<users, reset_tokens, email_tokens, audit_log, now>>

\* AuthService.refresh_access_token behind POST /auth/refresh, one request
\* running alone
refresh_access_token(tok) ==
    LET c == RefreshCheck(tok)
    IN /\ IF c = "PASS"
          THEN RefreshRotate(tok, TokenRecord(tok), users[tok.sub].password_version)
          ELSE IF c = "TOKEN_REUSE_DETECTED"
          THEN RefreshReuse(tok, ReusedToken(tok))
          ELSE RefreshRejected(tok, c)
       /\ UNCHANGED inflight

\* ---------------------------------------------------------------- requests
Login(emails, passwords, otps) ==
    \E email \in emails, password \in passwords, otp \in otps :
        authenticate_user(UserLogin(email, password, otp))

Refresh ==
    \E tok \in PresentableTokens : refresh_access_token(tok)

\* a refresh that presents one of the refresh JWTs handed out so far
RefreshIssued ==
    \E tok \in Range(issued_refresh) : refresh_access_token(tok)

\* the clock moves on by one of `steps`: a lockout period or a refresh-token
\* lifetime
Tick(steps) ==
    /\ Ticks(now) < MaxTicks
    /\ \E d \in steps : now' = now + d
    /\ last' = Response("tick", NULL, "OK")
    /\ UNCHANGED <<users, refresh_tokens, reset_tokens, email_tokens, audit_log,
                   issued_refresh, issued_access, returned_for, inflight>>

Callers == {1, 2}

\* a caller with no refresh request under way
IdleCaller ==
    [stage |-> "idle", tok |-> NULL, token_record |-> NULL, password_version |-> NULL,
     code |-> NULL, token |-> NULL]

\* two refresh requests in flight: the reads and checks of one request, and
\* later its writes and commit, with other requests in between
RefreshBegin(c, tok) ==
    LET r == RefreshCheck(tok)
    IN /\ inflight[c].stage \in {"idle", "done"}
       /\ IF r = "PASS"
          THEN /\ inflight' = [inflight EXCEPT ![c] =
                      [stage |-> "checked", tok |-> tok, token_record |-> TokenRecord(tok),
                       password_version |-> users[tok.sub].password_version,
                       code |-> NULL, token |-> NULL]]
               /\ UNCHANGED <<users, refresh_tokens, reset_tokens, email_tokens, audit_log, now,
                              issued_refresh, issued_access, returned_for, last>>
          ELSE /\ IF r = "TOKEN_REUSE_DETECTED"
                  THEN RefreshReuse(tok, ReusedToken(tok))
                  ELSE RefreshRejected(tok, r)
               /\ inflight' = [inflight EXCEPT ![c] =
                      [stage |-> "done", tok |-> tok, token_record |-> NULL,
                       password_version |-> NULL, code |-> r, token |-> NULL]]

RefreshCommit(c) ==
    /\ inflight[c].stage = "checked"
    /\ RefreshRotate(inflight[c].tok, inflight[c].token_record, inflight[c].password_version)
    /\ inflight' = [inflight EXCEPT ![c] =
           [@ EXCEPT !.stage = "done", !.code = "OK", !.token = Len(issued_refresh) + 1]]

\* a refresh request that ends between its checks and its commit (the client
\* went away, the handler raised): get_db rolls the session back, and the
\* session held no write yet
RefreshAbort(c) ==
    /\ inflight[c].stage = "checked"
    /\ inflight' = [inflight EXCEPT ![c] = [@ EXCEPT !.stage = "done", !.code = "ABORTED"]]
    /\ last' = [Response("refresh", inflight[c].tok.sub, "ABORTED") EXCEPT
                   !.arg = inflight[c].tok.jti]
    /\ UNCHANGED <<users, refresh_tokens, reset_tokens, email_tokens, audit_log, now,
                   issued_refresh, issued_access, returned_for>>

\* ----------------------------------------------------------------- passwords
\* UserService.change_password
change_password(uid, current_password, new_password) ==
    IF uid \notin DOMAIN users
    THEN Rejected("change_password", uid, "USER_NOT_FOUND")
    ELSE IF ~verify_password(current_password, users[uid].password_hash)
    THEN Rejected("change_password", uid, "CURRENT_PASSWORD_INCORRECT")
    ELSE IF ~validate_password_strength(new_password)
    THEN Rejected("change_password", uid, "WEAK_PASSWORD")
    ELSE IF verify_password(new_password, users[uid].password_hash)
    THEN Rejected("change_password", uid, "SAME_PASSWORD")
    ELSE /\ Len(audit_log) < MaxAudit
         /\ users[uid].password_version < MaxPwdVersion
         /\ users' = [users EXCEPT ![uid].password_hash = hash_password(new_password),
                                   ![uid].password_version = @ + 1]
         /\ audit_log' = Append(audit_log, AuditRow(uid, "PASSWORD_CHANGED", "success"))
         /\ last' = Response("change_password", uid, "OK")
         /\ UNCHANGED <<refresh_tokens, reset_tokens, email_tokens, now, issued_refresh, issued_access,
                        returned_for, inflight>>

\* PasswordResetToken.is_valid
reset_is_valid(row) == row.used_at = NULL /\ row.expires_at > now

\* a forgot-password route that tells the caller whether a token was made
forgot_password_response_leaky(reset_token) ==
    IF reset_token = NULL
    THEN [status |-> 404, message |-> "No account with this email."]
    ELSE [status |-> 200, message |-> "If the email exists, a password reset link has been sent."]

\* POST /auth/forgot-password: the body the route returns after the service
\* handed it reset_token (None for an unknown e-mail)
forgot_password_response(reset_token) ==
    [status |-> 200, message |-> "If the email exists, a password reset link has been sent."]

\* AuthService.request_password_reset
request_password_reset(email) ==
    LET uid == UserByEmail(Lower(email))
        raw == generate_secure_token(Len(reset_tokens) + 1)
    IN /\ Len(audit_log) < MaxAudit
       /\ IF uid = NULL
          THEN /\ audit_log' = Append(audit_log,
                                      AuditRow(NULL, "PASSWORD_RESET_REQUESTED", "info"))
               /\ last' = [Response("request_password_reset", NULL, "OK") EXCEPT
                              !.arg = forgot_password_response(NULL)]
               /\ UNCHANGED reset_tokens
          ELSE /\ Len(reset_tokens) < MaxResetTokens
               /\ reset_tokens' =
                      Append([i \in DOMAIN reset_tokens |->
                                 IF reset_tokens[i].user_id = uid /\ reset_tokens[i].used_at = NULL
                                 THEN [reset_tokens[i] EXCEPT !.used_at = now]
                                 ELSE reset_tokens[i]],
                             [user_id |-> uid, token_hash |-> hash_token(raw),
                              expires_at |-> now + PASSWORD_RESET_TOKEN_EXPIRY_HOURS * 60,
                              used_at |-> NULL])
               /\ audit_log' = Append(audit_log,
                                      AuditRow(uid, "PASSWORD_RESET_REQUESTED", "success"))
               /\ last' = [Response("request_password_reset", uid, "OK") EXCEPT
                              !.token = raw, !.arg = forgot_password_response(raw)]
       /\ UNCHANGED <<users, refresh_tokens, email_tokens, now, issued_refresh,
                      issued_access, returned_for, inflight>>

\* a reset that leaves the sessions of the user alone
RevokeNoTokens(uid) == refresh_tokens

\* the global logout of reset_password: every row of the user that is not yet
\* revoked gets revoked_at
RevokeActiveTokens(uid) ==
    [i \in DOMAIN refresh_tokens |->
        IF refresh_tokens[i].user_id = uid /\ refresh_tokens[i].revoked_at = NULL
        THEN [refresh_tokens[i] EXCEPT !.revoked_at = now]
        ELSE refresh_tokens[i]]

\* AuthService.reset_password
reset_password(token, new_password) ==
    LET hits == {i \in DOMAIN reset_tokens :
                    /\ reset_tokens[i].token_hash = hash_token(token)
                    /\ reset_tokens[i].used_at = NULL}
        reset_token == IF hits = {} THEN NULL ELSE CHOOSE i \in hits : TRUE
    IN IF ~validate_password_strength(new_password)
       THEN Rejected("reset_password", NULL, "WEAK_PASSWORD")
       ELSE IF reset_token = NULL \/ ~reset_is_valid(reset_tokens[reset_token])
       THEN Rejected("reset_password", NULL, "INVALID_TOKEN")
       ELSE LET uid == reset_tokens[reset_token].user_id
            IN IF uid \notin DOMAIN users
               THEN Rejected("reset_password", uid, "USER_NOT_FOUND")
               ELSE /\ Len(audit_log) < MaxAudit
                    /\ users[uid].password_version < MaxPwdVersion
                    /\ users' = [users EXCEPT
                                    ![uid].password_hash = hash_password(new_password),
                                    ![uid].password_version = @ + 1]
                    /\ reset_tokens' = [reset_tokens EXCEPT ![reset_token].used_at = now]
                    /\ refresh_tokens' = RevokeActiveTokens(uid)
                    /\ audit_log' = Append(audit_log,
                                           AuditRow(uid, "PASSWORD_RESET", "success"))
                    /\ last' = Response("reset_password", uid, "OK")
                    /\ UNCHANGED <<email_tokens, now, issued_refresh, issued_access,
                                   returned_for, inflight>>

\* a get_current_user that does not compare password versions
get_current_user_unfenced(tok) ==
    LET code == IF ~verify_access_token(tok) THEN "UNAUTHORIZED"
                ELSE IF tok.sub \notin DOMAIN users THEN "UNAUTHORIZED"
                ELSE "OK"
    IN /\ last' = [Response("get_current_user", tok.sub, code) EXCEPT !.arg = tok]
       /\ UNCHANGED <<users, refresh_tokens, reset_tokens, email_tokens, audit_log, now,
                      issued_refresh, issued_access, returned_for, inflight>>

\* get_current_user (app/api/dependencies/auth.py): "OK" when it returns the
\* user, else the 401
get_current_user(tok) ==
    LET code == IF ~verify_access_token(tok) THEN "UNAUTHORIZED"
                ELSE IF tok.sub \notin DOMAIN users THEN "UNAUTHORIZED"
                ELSE IF tok.ver # users[tok.sub].password_version THEN "UNAUTHORIZED"
                ELSE "OK"
    IN /\ last' = [Response("get_current_user", tok.sub, code) EXCEPT !.arg = tok]
       /\ UNCHANGED <<users, refresh_tokens, reset_tokens, email_tokens, audit_log, now,
                      issued_refresh, issued_access, returned_for, inflight>>

\* AuthService.enable_mfa
enable_mfa(uid, secret, verification_code, backup_codes) ==
    IF uid \notin DOMAIN users
    THEN Rejected("enable_mfa", uid, "USER_NOT_FOUND")
    ELSE IF ~verify_mfa_code(secret, verification_code, {}).valid
    THEN Rejected("enable_mfa", uid, "INVALID_MFA_CODE")
    ELSE /\ Len(audit_log) < MaxAudit
         /\ users' = [users EXCEPT ![uid].mfa_secret = secret,
                                   ![uid].mfa_enabled = TRUE,
                                   ![uid].backup_codes = hash_backup_codes(backup_codes)]
         /\ audit_log' = Append(audit_log, AuditRow(uid, "MFA_ENABLED", "success"))
         /\ last' = Response("enable_mfa", uid, "OK")
         /\ UNCHANGED <<refresh_tokens, reset_tokens, email_tokens, now, issued_refresh, issued_access,
                        returned_for, inflight>>

ChangePassword(passwords) ==
    \E uid \in DOMAIN users, cur \in passwords, new \in passwords :
        change_password(uid, cur, new)

RequestPasswordReset(emails) ==
    \E email \in emails : request_password_reset(email)

\* the reset tokens a client can present: every one sent out, and one never
\* issued
ResetPassword(passwords) ==
    \E n \in 1..(Len(reset_tokens) + 1), new \in passwords :
        reset_password(generate_secure_token(n), new)

GetCurrentUser ==
    \E tok \in PresentableTokens : get_current_user(tok)

\* the codes a client can type: the authenticator's current code, a wrong
\* six-digit code, a backup code with and without its dash, an unknown one
OtpCodes(secret) == {Totp(secret, TimeStep(now)), 123456, 11, 111, 12}

EnableMfa ==
    \E uid \in DOMAIN users, code \in OtpCodes(1) :
        enable_mfa(uid, 1, code, {11, 13})

\* ------------------------------------------------------- session revocation
\* a logout that revokes every session of the user
logout_everywhere(user_id, refresh_token) ==
    /\ Len(audit_log) < MaxAudit
    /\ refresh_tokens' = IF refresh_token = {} THEN refresh_tokens
                         ELSE RevokeActiveTokens(user_id)
    /\ audit_log' = Append(audit_log, AuditRow(user_id, "LOGOUT", "success"))
    /\ last' = [Response("logout", user_id, "OK") EXCEPT
                   !.arg = IF refresh_token = {} THEN NULL
                           ELSE (CHOOSE tok \in refresh_token : TRUE).jti]
    /\ UNCHANGED <<users, reset_tokens, email_tokens, now, issued_refresh, issued_access,
                   returned_for, inflight>>

\* AuthService.logout; refresh_token is Optional[str], here the set holding the
\* presented token or the empty set. A presented token revokes the row with its
\* hash that belongs to user_id; the LOGOUT audit row is written either way
logout(user_id, refresh_token) ==
    LET hits == {i \in DOMAIN refresh_tokens :
                    /\ \E tok \in refresh_token :
                           refresh_tokens[i].token_hash = hash_token(JwtString(tok))
                    /\ refresh_tokens[i].user_id = user_id}
    IN /\ Len(audit_log) < MaxAudit
       /\ refresh_tokens' = [i \in DOMAIN refresh_tokens |->
                                IF i \in hits
                                THEN [refresh_tokens[i] EXCEPT !.revoked_at = now]
                                ELSE refresh_tokens[i]]
       /\ audit_log' = Append(audit_log, AuditRow(user_id, "LOGOUT", "success"))
       /\ last' = [Response("logout", user_id, "OK") EXCEPT
                      !.arg = IF refresh_token = {} THEN NULL
                              ELSE (CHOOSE tok \in refresh_token : TRUE).jti]
       /\ UNCHANGED <<users, reset_tokens, email_tokens, now, issued_refresh, issued_access,
                      returned_for, inflight>>

\* AuthService.revoke_session: nothing is written when the row is not the user's
revoke_session(user_id, token_id) ==
    IF token_id \in DOMAIN refresh_tokens /\ refresh_tokens[token_id].user_id = user_id
    THEN /\ Len(audit_log) < MaxAudit
         /\ refresh_tokens' = [refresh_tokens EXCEPT ![token_id].revoked_at = now]
         /\ audit_log' = Append(audit_log, AuditRow(user_id, "SESSION_REVOKED", "success"))
         /\ last' = [Response("revoke_session", user_id, "OK") EXCEPT !.arg = token_id]
         /\ UNCHANGED <<users, reset_tokens, email_tokens, now, issued_refresh, issued_access,
                        returned_for, inflight>>
    ELSE /\ last' = [Response("revoke_session", user_id, "OK") EXCEPT !.arg = token_id]
         /\ UNCHANGED <<users, refresh_tokens, reset_tokens, email_tokens, audit_log, now,
                        issued_refresh, issued_access, returned_for, inflight>>

\* AuthService.get_active_sessions: the ids of the rows the query selects (the
\* ORDER BY created_at DESC of the query is not modelled)
get_active_sessions(user_id) ==
    {i \in DOMAIN refresh_tokens :
        /\ refresh_tokens[i].user_id = user_id
        /\ refresh_tokens[i].revoked_at = NULL
        /\ refresh_tokens[i].expires_at > now}

\* the rows revoke_all_sessions selects and counts: every row of the user with
\* revoked_at NULL, whatever its expires_at
UnrevokedTokens(user_id) ==
    {i \in DOMAIN refresh_tokens :
        refresh_tokens[i].user_id = user_id /\ refresh_tokens[i].revoked_at = NULL}

\* AuthService.revoke_all_sessions; the count it returns is kept in last.arg
revoke_all_sessions(user_id) ==
    /\ Len(audit_log) < MaxAudit
    /\ refresh_tokens' = RevokeActiveTokens(user_id)
    /\ audit_log' = Append(audit_log, AuditRow(user_id, "ALL_SESSIONS_REVOKED", "success"))
    /\ last' = [Response("revoke_all_sessions", user_id, "OK")
                   EXCEPT !.arg = Cardinality(UnrevokedTokens(user_id))]
    /\ UNCHANGED <<users, reset_tokens, email_tokens, now, issued_refresh, issued_access,
                   returned_for, inflight>>

\* POST /auth/logout: an authenticated user, with the refresh token of the
\* header or cookie (any token ever issued) or with none
Logout(uids) ==
    \E uid \in uids \cap DOMAIN users :
        \/ logout(uid, {})
        \/ \E tok \in Range(issued_refresh) : logout(uid, {tok})

\* DELETE /auth/devices/{device_id}: any id, also one that is no row
RevokeDevice(uids) ==
    \E uid \in uids \cap DOMAIN users, token_id \in 1..(Len(refresh_tokens) + 1) :
        revoke_session(uid, token_id)

\* POST /auth/devices/revoke-all
RevokeAllDevices(uids) ==
    \E uid \in uids \cap DOMAIN users : revoke_all_sessions(uid)

\* ------------------------------------------------------------- registration
\* rows of the roles table the migration seeds
SeededRoles == {"ADMIN", "SCORER", "VIEWER"}

\* the raw token of the n-th email_verification_tokens row (generate_secure_token
\* never repeats a value, so these differ from every reset token)
EmailToken(n) == generate_secure_token(MaxResetTokens + 1 + n)

\* EmailVerificationToken.is_valid
email_is_valid(row) == row.used_at = NULL /\ row.expires_at > now

\* a requested_role that `requested_role or "VIEWER"` replaces: None or ""
NoRole == ""

\* the fields of the UserRegister schema
UserRegister(email, password, requested_role) ==
    [email |-> email, password |-> password, requested_role |-> requested_role]

\* a register_user that looks the address up as it was typed
register_user_case_sensitive(registration) ==
    IF UserByEmail(registration.email) # NULL
    THEN Rejected("register", NULL, "EMAIL_EXISTS")
    ELSE IF ~validate_password_strength(registration.password)
    THEN Rejected("register", NULL, "WEAK_PASSWORD")
    ELSE LET uid == Len(users) + 1
             raw == EmailToken(Len(email_tokens) + 1)
             requested == IF registration.requested_role # NoRole
                          THEN registration.requested_role ELSE "VIEWER"
             role == IF requested \in SeededRoles THEN requested ELSE "VIEWER"
         IN /\ Len(users) < MaxUsers
            /\ Len(email_tokens) < MaxEmailTokens
            /\ Len(audit_log) < MaxAudit
            /\ users' = Append(users,
                   [email |-> Lower(registration.email),
                    password_hash |-> hash_password(registration.password),
                    password_version |-> 1, is_email_verified |-> FALSE,
                    mfa_enabled |-> FALSE, mfa_secret |-> NULL, backup_codes |-> {},
                    status |-> PENDING, failed_login_attempts |-> 0, locked_until |-> NULL,
                    roles |-> {role}])
            /\ email_tokens' = Append(email_tokens,
                   [user_id |-> uid, token_hash |-> hash_token(raw),
                    expires_at |-> now + EMAIL_VERIFICATION_TOKEN_EXPIRY_HOURS * 60,
                    used_at |-> NULL])
            /\ audit_log' = Append(audit_log, AuditRow(uid, "USER_REGISTERED", "success"))
            /\ last' = [Response("register", uid, "OK") EXCEPT !.token = raw]
            /\ UNCHANGED <<refresh_tokens, reset_tokens, now, issued_refresh, issued_access,
                           returned_for, inflight>>

\* AuthService.register_user
register_user(registration) ==
    IF UserByEmail(Lower(registration.email)) # NULL
    THEN Rejected("register", NULL, "EMAIL_EXISTS")
    ELSE IF ~validate_password_strength(registration.password)
    THEN Rejected("register", NULL, "WEAK_PASSWORD")
    ELSE LET uid == Len(users) + 1
             raw == EmailToken(Len(email_tokens) + 1)
             requested == IF registration.requested_role # NoRole
                          THEN registration.requested_role ELSE "VIEWER"
             role == IF requested \in SeededRoles THEN requested ELSE "VIEWER"
         IN /\ Len(users) < MaxUsers
            /\ Len(email_tokens) < MaxEmailTokens
            /\ Len(audit_log) < MaxAudit
            /\ users' = Append(users,
                   [email |-> Lower(registration.email),
                    password_hash |-> hash_password(registration.password),
                    password_version |-> 1, is_email_verified |-> FALSE,
                    mfa_enabled |-> FALSE, mfa_secret |-> NULL, backup_codes |-> {},
                    status |-> PENDING, failed_login_attempts |-> 0, locked_until |-> NULL,
                    roles |-> {role}])
            /\ email_tokens' = Append(email_tokens,
                   [user_id |-> uid, token_hash |-> hash_token(raw),
                    expires_at |-> now + EMAIL_VERIFICATION_TOKEN_EXPIRY_HOURS * 60,
                    used_at |-> NULL])
            /\ audit_log' = Append(audit_log, AuditRow(uid, "USER_REGISTERED", "success"))
            /\ last' = [Response("register", uid, "OK") EXCEPT !.token = raw]
            /\ UNCHANGED <<refresh_tokens, reset_tokens, now, issued_refresh, issued_access,
                           returned_for, inflight>>

\* a verify_email that accepts a token however often it was used
verify_email_reusable(token) ==
    LET hits == {i \in DOMAIN email_tokens :
                    /\ email_tokens[i].token_hash = hash_token(token)
                    /\ TRUE}
        email_token == IF hits = {} THEN NULL ELSE CHOOSE i \in hits : TRUE
    IN IF email_token = NULL \/ ~(email_tokens[email_token].expires_at > now)
       THEN /\ last' = [Response("verify_email", NULL, "INVALID_TOKEN") EXCEPT !.arg = token]
            /\ UNCHANGED <<users, refresh_tokens, reset_tokens, email_tokens, audit_log, now,
                           issued_refresh, issued_access, returned_for, inflight>>
       ELSE LET uid == email_tokens[email_token].user_id
            IN IF uid \notin DOMAIN users
               THEN Rejected("verify_email", uid, "USER_NOT_FOUND")
               ELSE /\ Len(audit_log) < MaxAudit
                    /\ email_tokens' = [email_tokens EXCEPT ![email_token].used_at = now]
                    /\ users' = [users EXCEPT ![uid].is_email_verified = TRUE,
                                              ![uid].status = ACTIVE]
                    /\ audit_log' = Append(audit_log,
                                           AuditRow(uid, "EMAIL_VERIFIED", "success"))
                    /\ last' = [Response("verify_email", uid, "OK") EXCEPT !.arg = token]
                    /\ UNCHANGED <<refresh_tokens, reset_tokens, now, issued_refresh,
                                   issued_access, returned_for, inflight>>

\* AuthService.verify_email
verify_email(token) ==
    LET hits == {i \in DOMAIN email_tokens :
                    /\ email_tokens[i].token_hash = hash_token(token)
                    /\ email_tokens[i].used_at = NULL}
        email_token == IF hits = {} THEN NULL ELSE CHOOSE i \in hits : TRUE
    IN IF email_token = NULL \/ ~email_is_valid(email_tokens[email_token])
       THEN /\ last' = [Response("verify_email", NULL, "INVALID_TOKEN") EXCEPT !.arg = token]
            /\ UNCHANGED <<users, refresh_tokens, reset_tokens, email_tokens, audit_log, now,
                           issued_refresh, issued_access, returned_for, inflight>>
       ELSE LET uid == email_tokens[email_token].user_id
            IN IF uid \notin DOMAIN users
               THEN Rejected("verify_email", uid, "USER_NOT_FOUND")
               ELSE /\ Len(audit_log) < MaxAudit
                    /\ email_tokens' = [email_tokens EXCEPT ![email_token].used_at = now]
                    /\ users' = [users EXCEPT ![uid].is_email_verified = TRUE,
                                              ![uid].status = ACTIVE]
                    /\ audit_log' = Append(audit_log,
                                           AuditRow(uid, "EMAIL_VERIFIED", "success"))
                    /\ last' = [Response("verify_email", uid, "OK") EXCEPT !.arg = token]
                    /\ UNCHANGED <<refresh_tokens, reset_tokens, now, issued_refresh,
                                   issued_access, returned_for, inflight>>

\* POST /auth/resend-verification: the body every caller gets
resend_verification_response(user_found) ==
    [status |-> 200,
     message |-> "If the email exists and is not verified, a new verification link has been sent."]

\* resend_verification_email (app/api/routes/auth.py)
resend_verification_email(email) ==
    LET uid == UserByEmail(Lower(email))
        raw == EmailToken(Len(email_tokens) + 1)
        found == uid # NULL /\ ~users[uid].is_email_verified
    IN /\ IF found
          THEN /\ Len(email_tokens) < MaxEmailTokens
               /\ email_tokens' =
                      Append([i \in DOMAIN email_tokens |->
                                 IF email_tokens[i].user_id = uid /\ email_tokens[i].used_at = NULL
                                 THEN [email_tokens[i] EXCEPT !.used_at = now]
                                 ELSE email_tokens[i]],
                             [user_id |-> uid, token_hash |-> hash_token(raw),
                              expires_at |-> now + 24 * 60,
                              used_at |-> NULL])
          ELSE UNCHANGED email_tokens
       /\ last' = [Response("resend_verification", NULL, "OK") EXCEPT
                      !.arg = resend_verification_response(found)]
       /\ UNCHANGED <<users, refresh_tokens, reset_tokens, audit_log, now, issued_refresh,
                      issued_access, returned_for, inflight>>

Register(emails, passwords, roles) ==
    \E email \in emails, password \in passwords, role \in roles :
        register_user(UserRegister(email, password, role))

\* the verification tokens a client can present: every one sent out, and one
\* never issued
VerifyEmail ==
    \E n \in 1..(Len(email_tokens) + 1) : verify_email(EmailToken(n))

ResendVerification(emails) ==
    \E email \in emails : resend_verification_email(email)

\* -------------------------------------------------------------------- roles
\* the role codes an admin can name: the seeded ones and one that is no row
RoleCodes == SeededRoles \cup {"GHOST"}
\* the relationships the User model declares
UserRelationships == {"roles", "refresh_tokens", "audit_logs"}

\* RoleService.assign_role
assign_role(user_id, role_code, assigned_by_id) ==
    IF "user_roles" \notin UserRelationships
    THEN \* selectinload(User.user_roles): User has no such attribute
         Rejected("assign_role", user_id, "INTERNAL_ERROR")
    ELSE IF user_id \notin DOMAIN users
    THEN Rejected("assign_role", user_id, "USER_NOT_FOUND")
    ELSE IF role_code \notin SeededRoles
    THEN Rejected("assign_role", user_id, "ROLE_NOT_FOUND")
    ELSE IF role_code \in users[user_id].roles
    THEN Rejected("assign_role", user_id, "ROLE_ALREADY_ASSIGNED")
    ELSE /\ Len(audit_log) < MaxAudit
         /\ users' = [users EXCEPT ![user_id].roles = @ \cup {role_code}]
         /\ audit_log' = Append(audit_log,
                                AuditRow(assigned_by_id, "ROLE_ASSIGNED", "success"))
         /\ last' = [Response("assign_role", user_id, "OK") EXCEPT !.arg = role_code]
         /\ UNCHANGED <<refresh_tokens, reset_tokens, email_tokens, now, issued_refresh, issued_access,
                        returned_for, inflight>>

\* a remove_role without the last-role guard
remove_role_unguarded(user_id, role_code, removed_by_id) ==
    IF user_id \notin DOMAIN users
    THEN Rejected("remove_role", user_id, "USER_NOT_FOUND")
    ELSE IF role_code \notin SeededRoles
    THEN Rejected("remove_role", user_id, "ROLE_NOT_FOUND")
    ELSE IF role_code \notin users[user_id].roles
    THEN Rejected("remove_role", user_id, "ROLE_NOT_ASSIGNED")
    ELSE /\ Len(audit_log) < MaxAudit
         /\ users' = [users EXCEPT ![user_id].roles = @ \ {role_code}]
         /\ audit_log' = Append(audit_log,
                                AuditRow(removed_by_id, "ROLE_REMOVED", "success"))
         /\ last' = [Response("remove_role", user_id, "OK") EXCEPT !.arg = role_code]
         /\ UNCHANGED <<refresh_tokens, reset_tokens, email_tokens, now, issued_refresh, issued_access,
                        returned_for, inflight>>

\* RoleService.remove_role
remove_role(user_id, role_code, removed_by_id) ==
    IF user_id \notin DOMAIN users
    THEN Rejected("remove_role", user_id, "USER_NOT_FOUND")
    ELSE IF role_code \notin SeededRoles
    THEN Rejected("remove_role", user_id, "ROLE_NOT_FOUND")
    ELSE IF role_code \notin users[user_id].roles
    THEN Rejected("remove_role", user_id, "ROLE_NOT_ASSIGNED")
    ELSE IF Cardinality(users[user_id].roles) = 1
    THEN Rejected("remove_role", user_id, "LAST_ROLE")
    ELSE /\ Len(audit_log) < MaxAudit
         /\ users' = [users EXCEPT ![user_id].roles = @ \ {role_code}]
         /\ audit_log' = Append(audit_log,
                                AuditRow(removed_by_id, "ROLE_REMOVED", "success"))
         /\ last' = [Response("remove_role", user_id, "OK") EXCEPT !.arg = role_code]
         /\ UNCHANGED <<refresh_tokens, reset_tokens, email_tokens, now, issued_refresh, issued_access,
                        returned_for, inflight>>

\* an admin (user 2) names a user and a role code
AssignRole ==
    \E uid \in DOMAIN users, role_code \in RoleCodes : assign_role(uid, role_code, 2)
RemoveRole ==
    \E uid \in DOMAIN users, role_code \in RoleCodes : remove_role(uid, role_code, 2)

\* ------------------------------------------------------------ user deletion
\* a deleted row keeps its place in the sequence (ids are never given out
\* again) and matches no lookup: no e-mail, hash or user id equals its fields
DELETED == "deleted"
DeletedUser(u) == [u EXCEPT !.email = "", !.status = DELETED, !.roles = {}]
DeletedToken(row) == [row EXCEPT !.user_id = NULL, !.token_hash = NULL]

\* ON DELETE CASCADE (and cascade="all, delete-orphan") for the rows of a table
\* that belong to user_id
CascadeDelete(table, user_id) ==
    [i \in DOMAIN table |->
        IF table[i].user_id = user_id THEN DeletedToken(table[i]) ELSE table[i]]

\* audit_log.user_id is ON DELETE SET NULL, and User.audit_logs has no delete
\* cascade: the rows of the deleted user stay, with user_id NULL
SetNullOnDelete(user_id) ==
    [i \in DOMAIN audit_log |->
        IF audit_log[i].user_id = user_id
        THEN [audit_log[i] EXCEPT !.user_id = NULL]
        ELSE audit_log[i]]

\* UserService.delete_user
delete_user(user_id, admin_id) ==
    IF user_id \notin DOMAIN users \/ users[user_id].status = DELETED
    THEN Rejected("delete_user", user_id, "USER_NOT_FOUND")
    ELSE /\ Len(audit_log) < MaxAudit
         /\ users' = [users EXCEPT ![user_id] = DeletedUser(@)]
         /\ refresh_tokens' = CascadeDelete(refresh_tokens, user_id)
         /\ reset_tokens' = CascadeDelete(reset_tokens, user_id)
         /\ email_tokens' = CascadeDelete(email_tokens, user_id)
         /\ audit_log' = Append(SetNullOnDelete(user_id),
                                AuditRow(admin_id, "USER_DELETED", "success"))
         /\ last' = Response("delete_user", user_id, "OK")
         /\ UNCHANGED <<now, issued_refresh, issued_access, returned_for, inflight>>

\* DELETE /users/{user_id}: the admin (user 2) names any id but their own
DeleteUser ==
    \E uid \in 1..(Len(users) + 1) : uid # 2 /\ delete_user(uid, 2)

\* the role codes a registration can ask for: none, seeded ones, and one that
\* is not in the roles table
RequestedRoles == {NoRole, "ADMIN", "SCORER", "UMPIRE"}

\* ------------------------------------------------------------- user status
\* the values the UpdateUserStatus schema lets through: status is a str that
\* matches ^(active|locked|pending)$
StatusValues == {ACTIVE, LOCKED, PENDING}

\* an update_user_status that commits the status it was given and leaves the
\* counter of failed attempts alone
update_user_status_keeps_count(user_id, status, admin_id) ==
    IF user_id \notin DOMAIN users \/ users[user_id].status = DELETED
    THEN Rejected("update_user_status", user_id, "USER_NOT_FOUND")
    ELSE /\ Len(audit_log) < MaxAudit
         /\ users' = [users EXCEPT ![user_id].status = status]
         /\ audit_log' = Append(audit_log,
                AuditRow(admin_id, "USER_STATUS_UPDATED", "success"))
         /\ last' = [Response("update_user_status", user_id, "OK") EXCEPT !.arg = status]
         /\ UNCHANGED <<refresh_tokens, reset_tokens, email_tokens, now, issued_refresh,
                        issued_access, returned_for, inflight>>

\* UserService.update_user_status. The new status and, for locked -> active,
\* the reset of the counter are assigned to the loaded row, then the audit
\* details are built with status_update.status.value; status is a str, so that
\* raises AttributeError before the audit row is added or anything is
\* committed, the route's `except ValueError` does not catch it and the session
\* is rolled back. last.arg keeps the status that was asked for.
update_user_status(user_id, status, admin_id) ==
    IF user_id \notin DOMAIN users \/ users[user_id].status = DELETED
    THEN Rejected("update_user_status", user_id, "USER_NOT_FOUND")
    ELSE /\ last' = [Response("update_user_status", user_id, "INTERNAL_ERROR")
                        EXCEPT !.arg = status]
         /\ UNCHANGED <<users, refresh_tokens, reset_tokens, email_tokens, audit_log, now,
                        issued_refresh, issued_access, returned_for, inflight>>

\* PATCH /users/{user_id}/status: an admin names a user id and a status
UpdateUserStatus(admin_id, uids, statuses) ==
    \E uid \in uids, status \in statuses : update_user_status(uid, status, admin_id)

\* ------------------------------------------------- login requests in flight
\* the UPDATE the session flushes for a user row: only the columns whose value
\* differs from the one that was loaded are written
FlushUser(loaded, changed, row) ==
    [row EXCEPT
        !.status = IF changed.status # loaded.status THEN changed.status ELSE @,
        !.failed_login_attempts =
            IF changed.failed_login_attempts # loaded.failed_login_attempts
            THEN changed.failed_login_attempts ELSE @,
        !.locked_until =
            IF changed.locked_until # loaded.locked_until THEN changed.locked_until ELSE @]

\* authenticate_user up to the password check of a request that will fail it:
\* the SELECT of the user row (no FOR UPDATE) is done, the row is held in the
\* request's session. Every other request runs as one step.
LoginBegin(c, email, password) ==
    LET uid == UserByEmail(Lower(email))
    IN /\ inflight[c].stage \in {"idle", "done"}
       /\ IF /\ uid # NULL
             /\ ~StillLocked(users[uid])
             /\ AfterUnlock(users[uid]).status # PENDING
             /\ ~verify_password(password, users[uid].password_hash)
          THEN /\ inflight' = [inflight EXCEPT ![c] =
                      [stage |-> "read", user_id |-> uid, user |-> users[uid]]]
               /\ UNCHANGED <<users, refresh_tokens, reset_tokens, email_tokens, audit_log, now,
                              issued_refresh, issued_access, returned_for, last>>
          ELSE authenticate_user(UserLogin(email, password, NULL))

\* the wrong-password block of that request: the counter of the row it loaded
\* plus one, the lock at the threshold, the audit row, and the commit
LoginCommit(c) ==
    /\ inflight[c].stage = "read"
    /\ LET uid == inflight[c].user_id
           loaded == inflight[c].user
       IN /\ Len(audit_log) < MaxAudit
          /\ users' = [users EXCEPT ![uid] =
                 FlushUser(loaded, AfterFailedAttempt(AfterUnlock(loaded)), @)]
          /\ audit_log' = Append(audit_log, AuditRow(uid, "LOGIN_FAILED", "failure"))
          /\ last' = Response("login", uid, "INVALID_CREDENTIALS")
          /\ inflight' = [inflight EXCEPT ![c] = IdleCaller]
          /\ UNCHANGED <<refresh_tokens, reset_tokens, email_tokens, now, issued_refresh,
                         issued_access, returned_for>>

\* ------------------------------------------- role removals in flight
\* RoleService.remove_role up to the last-role check: the user, the role, the
\* user_roles row and the count of the user's rows are read with plain SELECTs.
\* A request that fails a check ends there and runs as one step.
RemoveRoleBegin(c, user_id, role_code) ==
    /\ inflight[c].stage \in {"idle", "done"}
    /\ IF /\ user_id \in DOMAIN users
          /\ role_code \in SeededRoles
          /\ role_code \in users[user_id].roles
          /\ Cardinality(users[user_id].roles) # 1
       THEN /\ inflight' = [inflight EXCEPT ![c] =
                   [stage |-> "role_checked", user_id |-> user_id, role_code |-> role_code]]
            /\ UNCHANGED <<users, refresh_tokens, reset_tokens, email_tokens, audit_log, now,
                           issued_refresh, issued_access, returned_for, last>>
       ELSE remove_role(user_id, role_code, 2)

\* the writes of that request and their commit: the audit row and the DELETE
\* of the user_roles row it read
RemoveRoleCommit(c) ==
    /\ inflight[c].stage = "role_checked"
    /\ Len(audit_log) < MaxAudit
    /\ users' = [users EXCEPT ![inflight[c].user_id].roles = @ \ {inflight[c].role_code}]
    /\ audit_log' = Append(audit_log, AuditRow(2, "ROLE_REMOVED", "success"))
    /\ last' = [Response("remove_role", inflight[c].user_id, "OK") EXCEPT
                   !.arg = inflight[c].role_code]
    /\ inflight' = [inflight EXCEPT ![c] = IdleCaller]
    /\ UNCHANGED <<refresh_tokens, reset_tokens, email_tokens, now, issued_refresh,
                   issued_access, returned_for>>

\* ---------------------------------------------------------- initial states
\* a users row as register_user creates it and verify_email activates it
VerifiedUser(email, password) ==
    [email |-> Lower(email), password_hash |-> hash_password(password),
     password_version |-> 1, is_email_verified |-> TRUE,
     mfa_enabled |-> FALSE, mfa_secret |-> NULL, backup_codes |-> {},
     status |-> ACTIVE, failed_login_attempts |-> 0, locked_until |-> NULL,
     roles |-> {"VIEWER"}]

\* the database once the accounts in `accounts` have registered and verified
\* their e-mail address
InitWith(accounts) ==
    /\ users = accounts
    /\ refresh_tokens = << >>
    /\ reset_tokens = << >>
    /\ email_tokens = [i \in 1..Len(accounts) |->
                          [user_id |-> i, token_hash |-> hash_token(EmailToken(i)),
                           expires_at |-> EMAIL_VERIFICATION_TOKEN_EXPIRY_HOURS * 60,
                           used_at |-> 0]]
    /\ audit_log = [i \in 1..(2 * Len(accounts)) |->
                       IF i % 2 = 1
                       THEN AuditRow((i + 1) \div 2, "USER_REGISTERED", "success")
                       ELSE AuditRow(i \div 2, "EMAIL_VERIFIED", "success")]
    /\ now = 0
    /\ issued_refresh = << >>
    /\ issued_access = {}
    /\ returned_for = << >>
    /\ last = Response("none", NULL, "OK")
    /\ inflight = [c \in Callers |-> IdleCaller]

InitOne == InitWith(<<VerifiedUser("a@x.com", "Secret123!")>>)
InitTwo == InitWith(<<VerifiedUser("a@x.com", "Secret123!"),
                      VerifiedUser("b@x.com", "Another456?")>>)

\* two accounts, the second an administrator whose user_roles rows were loaded
\* into the database directly (assign_role cannot add a row)
InitRoles ==
    InitWith(<<VerifiedUser("a@x.com", "Secret123!"),
               [VerifiedUser("b@x.com", "Another456?") EXCEPT
                   !.roles = {"ADMIN", "SCORER", "VIEWER"}]>>)

\* one verified account whose hash was made before the Argon2 parameters were
\* raised (needs_rehash is true for it)
InitOutdated ==
    InitWith(<<[VerifiedUser("a@x.com", "Secret123!") EXCEPT
                   !.password_hash = [pw |-> "Secret123!", outdated |-> TRUE]]>>)

\* one verified account after a login and four wrong passwords, all at time 0:
\* one session, the counter one short of the lockout
InitNearLock ==
    /\ now = 0
    /\ users = <<[VerifiedUser("a@x.com", "Secret123!") EXCEPT
                     !.failed_login_attempts = MAX_FAILED_LOGIN_ATTEMPTS - 1]>>
    /\ refresh_tokens = <<RefreshRow(1, create_refresh_token(1, 1, 1))>>
    /\ reset_tokens = << >>
    /\ email_tokens = <<[user_id |-> 1, token_hash |-> hash_token(EmailToken(1)),
                         expires_at |-> EMAIL_VERIFICATION_TOKEN_EXPIRY_HOURS * 60,
                         used_at |-> 0]>>
    /\ audit_log = <<AuditRow(1, "USER_REGISTERED", "success"),
                     AuditRow(1, "EMAIL_VERIFIED", "success"),
                     AuditRow(1, "LOGIN_SUCCESS", "success")>>
                   \o [i \in 1..(MAX_FAILED_LOGIN_ATTEMPTS - 1) |->
                          AuditRow(1, "LOGIN_FAILED", "failure")]
    /\ issued_refresh = <<create_refresh_token(1, 1, 1)>>
    /\ issued_access = {create_access_token(1, 1)}
    /\ returned_for = <<NULL>>
    /\ last = Response("login", 1, "INVALID_CREDENTIALS")
    /\ inflight = [c \in Callers |-> IdleCaller]

\* two accounts with exactly two roles each, the second an administrator (the
\* user_roles rows beside VIEWER were loaded into the database directly)
InitTwoRoles ==
    InitWith(<<[VerifiedUser("a@x.com", "Secret123!") EXCEPT
                   !.roles = {"SCORER", "VIEWER"}],
               [VerifiedUser("b@x.com", "Another456?") EXCEPT
                   !.roles = {"ADMIN", "VIEWER"}]>>)

\* one verified account that registered with requested_role ADMIN
InitAdmin ==
    InitWith(<<[VerifiedUser("a@x.com", "Secret123!") EXCEPT !.roles = {"ADMIN"}]>>)

\* the steps of the clock
Lockout == {ACCOUNT_LOCKOUT_DURATION_MINUTES}
Lifetime == {RefreshLifetime}

\* login, refresh rotation and the clock for one account
NextSession ==
    \/ Login({"a@x.com", "A@x.com"}, {"Secret123!"}, {NULL})
    \/ Refresh
    \/ Tick(Lockout \cup Lifetime)
SpecSession == InitOne /\ [][NextSession]_vars

\* two concurrent refresh requests for one account
NextRace ==
    \/ Login({"a@x.com"}, {"Secret123!"}, {NULL})
    \/ \E c \in Callers, tok \in Range(issued_refresh) : RefreshBegin(c, tok)
    \/ \E c \in Callers : RefreshCommit(c)
SpecRace == InitOne /\ [][NextRace]_vars

\* refresh requests that commit, fail a check or are aborted, two callers
NextRotate ==
    \/ Login({"a@x.com"}, {"Secret123!"}, {NULL})
    \/ \E c \in Callers, tok \in Range(issued_refresh) : RefreshBegin(c, tok)
    \/ \E c \in Callers : RefreshCommit(c)
    \/ \E c \in Callers : RefreshAbort(c)
SpecRotate == InitOne /\ [][NextRotate]_vars

\* refresh across password changes, one account
NextFence ==
    \/ Login({"a@x.com"}, {"Secret123!"}, {NULL})
    \/ Refresh
    \/ ChangePassword({"Secret123!", "Another456?"})
SpecFence == InitOne /\ [][NextFence]_vars

\* bearer authentication across password changes and resets, one account
NextBearer ==
    \/ Login({"a@x.com"}, {"Secret123!"}, {NULL})
    \/ ChangePassword({"Secret123!", "Another456?"})
    \/ RequestPasswordReset({"a@x.com"})
    \/ ResetPassword({"Secret123!"})
    \/ GetCurrentUser
SpecBearer == InitOne /\ [][NextBearer]_vars

\* password reset by e-mail with two accounts holding sessions
NextReset ==
    \/ Login({"a@x.com"}, {"Secret123!"}, {NULL})
    \/ Login({"b@x.com"}, {"Another456?"}, {NULL})
    \/ RequestPasswordReset({"a@x.com"})
    \/ ResetPassword({"Secret123!"})
    \/ RefreshIssued
SpecReset == InitTwo /\ [][NextReset]_vars

\* password attempts against one account while the clock runs
NextLogin ==
    \/ Login({"a@x.com"}, {"Secret123!", "Another456?"}, {NULL})
    \/ Tick(Lockout)
SpecLogin == InitOne /\ [][NextLogin]_vars

\* logins of an account that turns on MFA, with and without a code
NextMfa ==
    \/ EnableMfa
    \/ Login({"a@x.com"}, {"Secret123!", "Another456?"}, OtpCodes(1) \cup {NULL})
    \/ Tick(Lockout)
SpecMfa == InitOne /\ [][NextMfa]_vars

\* role administration while an account logs in
NextRoles ==
    \/ AssignRole
    \/ RemoveRole
    \/ Login({"b@x.com"}, {"Another456?"}, {NULL})
SpecRoles == InitRoles /\ [][NextRoles]_vars

\* the e-mail addresses of the enumeration scenario: a verified account, one
\* that registers and is still pending, and one nobody registered
Verified == {"a@x.com"}
Pending == {"c@x.com"}
Unknown == {"d@x.com"}

\* forgot-password and resend-verification for known and unknown addresses
NextEnum ==
    \/ Register(Pending, {"Secret123!"}, {NoRole})
    \/ ResendVerification(Verified \cup Pending \cup Unknown)
    \/ RequestPasswordReset(Verified \cup Pending \cup Unknown)
    \/ VerifyEmail
SpecEnum == InitOne /\ [][NextEnum]_vars

\* two admin sessions removing roles of the same users, their requests
\* interleaved
NextRoleRace ==
    \/ \E c \in Callers, uid \in {1, 2}, role_code \in RoleCodes :
           RemoveRoleBegin(c, uid, role_code)
    \/ \E c \in Callers : RemoveRoleCommit(c)
SpecRoleRace == InitTwoRoles /\ [][NextRoleRace]_vars

\* a session kept alive by refreshes while one more wrong password locks its
\* account and the lockout runs out
NextInactive ==
    \/ Len(refresh_tokens) < MaxSessions /\ Login({"a@x.com"}, {"Secret123!"}, {NULL})
    \/ Login({"a@x.com"}, {"Another456?"}, {NULL})
    \/ RefreshIssued
    \/ Tick(Lockout)
SpecInactive == InitNearLock /\ [][NextInactive]_vars

\* the operations that write status or failed_login_attempts: logins with
\* right and wrong passwords, registration and e-mail verification, password
\* resets (these while the audit log is short), status updates the account,
\* an administrator, sends for itself, and the clock past the lockout
NextStatus ==
    \/ Login({"a@x.com"}, {"Secret123!", "Another456?"}, {NULL})
    \/ Len(audit_log) < MaxStatusAudit /\ Register(Pending, {"Secret123!"}, {NoRole})
    \/ Len(audit_log) < MaxStatusAudit /\ VerifyEmail
    \/ Len(audit_log) < MaxStatusAudit /\ RequestPasswordReset({"a@x.com"})
    \/ Len(audit_log) < MaxStatusAudit /\ ResetPassword({"Secret123!"})
    \/ UpdateUserStatus(1, {1}, {ACTIVE, LOCKED})
    \/ Tick(Lockout)
SpecStatus == InitAdmin /\ [][NextStatus]_vars

\* two clients sending logins for one account, wrong passwords interleaved
NextLockout ==
    \/ \E c \in Callers : LoginBegin(c, "a@x.com", "Another456?")
    \/ \E c \in Callers : LoginBegin(c, "a@x.com", "Secret123!")
    \/ \E c \in Callers : LoginCommit(c)
SpecLockout == InitOne /\ [][NextLockout]_vars

\* an account that logs in with right and wrong passwords while an admin sets
\* user statuses and the clock passes the lockout duration
NextAdminLock ==
    \/ Login({"a@x.com"}, {"Secret123!", "Another456?"}, {NULL})
    \/ UpdateUserStatus(2, {1, 3}, StatusValues)
    \/ Tick(Lockout)
SpecAdminLock == InitRoles /\ [][NextAdminLock]_vars

\* registrations under every spelling of the addresses, with strong and weak
\* passwords and every role request, next to e-mail verification
NextRegister ==
    \/ Register(Emails, {"Secret123!", "short"}, RequestedRoles)
    \/ VerifyEmail
SpecRegister == InitOne /\ [][NextRegister]_vars

\* two accounts logging in and rotating, the device list operations of both,
\* and the clock up to the expiry of a refresh token
NextDevices ==
    \/ Len(audit_log) < MaxVersionAudit /\ Login({"a@x.com"}, {"Secret123!"}, {NULL})
    \/ Len(audit_log) < MaxVersionAudit /\ Login({"b@x.com"}, {"Another456?"}, {NULL})
    \/ Len(audit_log) < MaxVersionAudit /\ RefreshIssued
    \/ Len(audit_log) < MaxVersionAudit /\ RevokeDevice({1, 2})
    \/ Len(audit_log) < MaxVersionAudit /\ RevokeAllDevices({1, 2})
    \/ Len(audit_log) < MaxVersionAudit /\ Tick(Lifetime)
SpecDevices == InitTwo /\ [][NextDevices]_vars

\* operations that write audit rows for an account, and its deletion by the
\* administrator
NextAudit ==
    \/ Register(Pending, {"Secret123!"}, {NoRole})
    \/ Login(Verified, {"Secret123!", "Another456?"}, {NULL})
    \/ RequestPasswordReset(Verified \cup Unknown)
    \/ DeleteUser
SpecAudit == InitRoles /\ [][NextAudit]_vars

\* every operation that writes password_version or issues tokens: registration,
\* login with rehash, refresh, password change and password reset; the run ends
\* once MaxVersionAudit audit rows exist
NextVersion ==
    \/ Len(audit_log) < MaxVersionAudit /\ Register(Pending, {"Secret123!"}, {NoRole})
    \/ Len(audit_log) < MaxVersionAudit
          /\ Login(Verified, {"Secret123!", "Another456?"}, {NULL})
    \/ Len(audit_log) < MaxVersionAudit /\ RefreshIssued
    \/ Len(audit_log) < MaxVersionAudit /\ ChangePassword({"Secret123!", "Another456?"})
    \/ Len(audit_log) < MaxVersionAudit /\ RequestPasswordReset(Verified)
    \/ Len(audit_log) < MaxVersionAudit /\ ResetPassword({"Secret123!"})
SpecVersion == InitOutdated /\ [][NextVersion]_vars

\* two accounts that log in and rotate; the first logs out, presenting any
\* issued token, its own or the other account's
NextLogout ==
    \/ Login({"a@x.com"}, {"Secret123!"}, {NULL})
    \/ Login({"b@x.com"}, {"Another456?"}, {NULL})
    \/ RefreshIssued
    \/ Logout({1})
SpecLogout == InitTwo /\ [][NextLogout]_vars

\* tokens issued again and again: reset tokens for a verified account,
\* verification tokens for a pending one, and their use
NextReissue ==
    \/ Register(Pending, {"Secret123!"}, {NoRole})
    \/ ResendVerification(Pending)
    \/ VerifyEmail
    \/ RequestPasswordReset(Verified)
    \/ ResetPassword({"Another456?", "short"})
SpecReissue == InitOne /\ [][NextReissue]_vars

\* logins of accounts that registered and may not have verified their e-mail
NextPending ==
    \/ Register(Pending, {"Secret123!"}, {NoRole})
    \/ Login(Pending, {"Secret123!", "Another456?"}, {NULL})
    \/ VerifyEmail
    \/ Tick(Lockout)
SpecPending == InitOne /\ [][NextPending]_vars

\* registration and e-mail verification with tokens that are replaced and run out
NextVerify ==
    \/ Register(Pending \cup {"e@x.com"}, {"Secret123!"}, {NoRole})
    \/ VerifyEmail
    \/ ResendVerification(Pending)
    \/ Tick(Lifetime)
SpecVerify == InitOne /\ [][NextVerify]_vars

\* password resets with strong and weak passwords and with tokens that run out
NextResetErrors ==
    \/ Login({"a@x.com"}, {"Secret123!"}, {NULL})
    \/ RequestPasswordReset({"a@x.com"})
    \/ ResetPassword({"Another456?", "short"})
    \/ Tick(Lockout)
SpecResetErrors == InitOne /\ [][NextResetErrors]_vars

\* every operation that writes refresh_tokens rows, for the first of two
\* accounts, and the clock; the run ends once MaxRevokeAudit audit rows exist
NextRevoke ==
    \/ Len(audit_log) < MaxRevokeAudit /\ Login({"a@x.com"}, {"Secret123!"}, {NULL})
    \/ Len(audit_log) < MaxRevokeAudit /\ RefreshIssued
    \/ Len(audit_log) < MaxRevokeAudit /\ Logout({1})
    \/ Len(audit_log) < MaxRevokeAudit /\ RevokeDevice({1})
    \/ Len(audit_log) < MaxRevokeAudit /\ RevokeAllDevices({1})
    \/ Len(audit_log) < MaxRevokeAudit /\ RequestPasswordReset({"a@x.com"})
    \/ Len(audit_log) < MaxRevokeAudit /\ ResetPassword({"Secret123!"})
    \/ Len(audit_log) < MaxRevokeAudit /\ Tick(Lifetime)
SpecRevoke == InitTwo /\ [][NextRevoke]_vars

\* ------------------------------------------------------------ token families
\* the refresh JWT a chain of rotations started from
RECURSIVE RootOf(_)
RootOf(jti) == IF returned_for[jti] = NULL THEN jti ELSE RootOf(returned_for[jti])
\* the token family of a refresh JWT: everything rotated from the same login
Family(jti) == {j \in DOMAIN returned_for : RootOf(j) = RootOf(jti)}
\* a refresh with this JWT has already returned a new pair
Rotated(jti) == \E j \in DOMAIN returned_for : returned_for[j] = jti
\* the row stored for a refresh JWT
RowOf(jti) == CHOOSE i \in DOMAIN refresh_tokens : refresh_tokens[i].jti = jti

\* the last request was a refresh that presented an already rotated, still
\* unexpired refresh JWT
ReplayedRefresh ==
    /\ last.op = "refresh"
    /\ last.arg # NULL
    /\ last.code # "OK"
    /\ Rotated(last.arg)
    /\ verify_refresh_token(issued_refresh[last.arg])

\* C1: rotation is single-use: a refresh with a token that an earlier refresh
\* already rotated fails with TOKEN_REUSE_DETECTED, and the token the earlier
\* refresh returned is revoked by it.
C1_ReplayDetected ==
    ReplayedRefresh =>
        /\ last.code = "TOKEN_REUSE_DETECTED"
        /\ \A j \in DOMAIN returned_for :
               returned_for[j] = last.arg => refresh_tokens[RowOf(j)].revoked_at # NULL

\* C2: after a rotated token of a chain of two or more rotations is presented,
\* every row of the chain is revoked, the newest included.
C2_WholeFamilyRevoked ==
    (ReplayedRefresh /\ Cardinality(Family(last.arg)) >= 3) =>
        \A j \in Family(last.arg) : refresh_tokens[RowOf(j)].revoked_at # NULL

\* C3: after a successful refresh the new row is stored and valid for the same
\* user, and the presented token's row is revoked with replaced_by naming the
\* new row.
C3_RotationLinked ==
    (last.op = "refresh" /\ last.code = "OK") =>
        LET t == RowOf(last.arg)
            n == RowOf(last.token)
        IN /\ refresh_tokens[n].user_id = refresh_tokens[t].user_id
           /\ is_valid(refresh_tokens[n])
           /\ refresh_tokens[t].revoked_at # NULL
           /\ refresh_tokens[t].replaced_by = n

\* C4: of two interleaved refreshes that present the same valid token at most
\* one returns a new pair (the other fails), and no state holds two valid rows
\* that were both issued from one presented token.
C4_OneWinner ==
    /\ \A c1, c2 \in Callers :
           (/\ c1 # c2
            /\ inflight[c1].stage = "done" /\ inflight[c2].stage = "done"
            /\ inflight[c1].tok = inflight[c2].tok
            /\ inflight[c1].code = "OK")
           => inflight[c2].code # "OK"
    /\ \A j1, j2 \in DOMAIN returned_for :
           (/\ j1 # j2
            /\ returned_for[j1] # NULL
            /\ returned_for[j1] = returned_for[j2])
           => ~(is_valid(refresh_tokens[RowOf(j1)]) /\ is_valid(refresh_tokens[RowOf(j2)]))


\* ------------------------------------------------------ password versions
\* C5: a refresh whose token carries a password version other than the user's
\* current one never returns a pair and stores no new row; when the token's
\* row is still valid and the user is active it fails with PASSWORD_CHANGED.
C5_PasswordVersionFence ==
    [][\A tok \in PresentableTokens :
          (/\ refresh_access_token(tok)
           /\ tok.sub \in DOMAIN users
           /\ tok.ver # users[tok.sub].password_version)
          => /\ last'.code # "OK"
             /\ Len(refresh_tokens') = Len(refresh_tokens)
             /\ issued_refresh' = issued_refresh
             /\ (/\ verify_refresh_token(tok)
                 /\ TokenRecord(tok) # NULL
                 /\ is_valid(refresh_tokens[TokenRecord(tok)])
                 /\ users[tok.sub].status = ACTIVE)
                => last'.code = "PASSWORD_CHANGED"
      ]_vars

\* a refresh token with a valid row was refused after change_password
C5_Witness ==
    /\ last.op = "refresh"
    /\ last.code = "PASSWORD_CHANGED"
    /\ is_valid(refresh_tokens[RowOf(last.arg)])
    /\ issued_refresh[last.arg].ver < users[last.user].password_version
    /\ \E i \in DOMAIN audit_log :
           audit_log[i].action = "PASSWORD_CHANGED" /\ audit_log[i].user_id = last.user

UserIds == 1..2

\* the last request was a successful reset_password of the user that refresh
\* JWT j was issued to
ResetDone(j) ==
    /\ last.op = "reset_password"
    /\ last.code = "OK"
    /\ j \in DOMAIN issued_refresh
    /\ issued_refresh[j].sub = last.user
\* the last request was a refresh with JWT j that returned a pair
RefreshSucceeded(j) ==
    last.op = "refresh" /\ last.code = "OK" /\ last.arg = j

\* C6: a successful reset_password for user u revokes every row u had, raises
\* u's password_version by one and leaves the rows of other users as they
\* were; no refresh token issued to u before the reset succeeds afterwards.
C6_GlobalLogout ==
    /\ [][\A n \in 1..Len(reset_tokens), new \in Passwords :
             (reset_password(generate_secure_token(n), new) /\ last'.code = "OK")
             => LET u == last'.user
                IN /\ DOMAIN refresh_tokens' = DOMAIN refresh_tokens
                   /\ \A i \in DOMAIN refresh_tokens :
                          IF refresh_tokens[i].user_id = u
                          THEN refresh_tokens'[i].revoked_at # NULL
                          ELSE refresh_tokens'[i] = refresh_tokens[i]
                   /\ users'[u].password_version = users[u].password_version + 1
         ]_vars
    /\ \A j \in 1..MaxTokens : [](ResetDone(j) => []~RefreshSucceeded(j))

\* a refresh token issued before a reset is presented after it and refused,
\* while another user still holds a valid row
C6_Witness ==
    /\ last.op = "refresh"
    /\ last.code # "OK"
    /\ last.arg # NULL
    /\ issued_refresh[last.arg].ver < users[last.user].password_version
    /\ refresh_tokens[RowOf(last.arg)].revoked_at # NULL
    /\ \E i \in DOMAIN audit_log :
           audit_log[i].action = "PASSWORD_RESET" /\ audit_log[i].user_id = last.user
    /\ \E i \in DOMAIN refresh_tokens :
           refresh_tokens[i].user_id # last.user /\ is_valid(refresh_tokens[i])

\* the last request changed the password of u (change_password or
\* reset_password) when an access token of version v had been issued to u
PasswordChanged(u, v) ==
    /\ last.op \in {"change_password", "reset_password"}
    /\ last.code = "OK"
    /\ last.user = u
    /\ \E tok \in issued_access : tok.sub = u /\ tok.ver = v /\ tok.ver < users[u].password_version
\* the last request was get_current_user returning u for a token of version v
Accepted(u, v) ==
    /\ last.op = "get_current_user"
    /\ last.code = "OK"
    /\ last.arg.sub = u
    /\ last.arg.ver = v

\* C7: get_current_user returns a user only for an access token that verifies
\* and carries the user's current password_version; once a password change
\* has succeeded, no access token issued before it is accepted again.
C7_BearerFence ==
    /\ []((last.op = "get_current_user" /\ last.code = "OK")
          => /\ verify_access_token(last.arg)
             /\ last.arg.sub \in DOMAIN users
             /\ last.arg.ver = users[last.arg.sub].password_version)
    /\ \A u \in UserIds, v \in 1..MaxPwdVersion :
           [](PasswordChanged(u, v) => []~Accepted(u, v))

\* an unexpired access token of an older password version is rejected
C7_Witness ==
    /\ last.op = "get_current_user"
    /\ last.code = "UNAUTHORIZED"
    /\ verify_access_token(last.arg)
    /\ last.arg.ver < users[last.arg.sub].password_version

\* ------------------------------------------------------------------ lockout
\* C8: a wrong password for an active user adds one to failed_login_attempts;
\* below 5 the user stays active, at 5 the user is locked with locked_until =
\* now + 30 minutes; a successful login sets the counter to 0; while the lock
\* lasts every login fails with ACCOUNT_LOCKED and leaves the row unchanged.
C8_LockoutThreshold ==
    [][\A email \in Emails, password \in Passwords :
          LET uid == UserByEmail(Lower(email))
          IN (uid # NULL /\ authenticate_user(UserLogin(email, password, NULL)))
             => LET u == users[uid]
                    v == users'[uid]
                IN /\ (u.status = ACTIVE /\ ~verify_password(password, u.password_hash))
                      => /\ last'.code = "INVALID_CREDENTIALS"
                         /\ v.failed_login_attempts = u.failed_login_attempts + 1
                         /\ IF v.failed_login_attempts < MAX_FAILED_LOGIN_ATTEMPTS
                            THEN v.status = ACTIVE /\ v.locked_until = u.locked_until
                            ELSE /\ v.status = LOCKED
                                 /\ v.locked_until = now + ACCOUNT_LOCKOUT_DURATION_MINUTES
                   /\ (last'.code = "OK")
                      => v.failed_login_attempts = 0 /\ v.status = ACTIVE
                   /\ (u.status = LOCKED /\ u.locked_until # NULL /\ u.locked_until > now)
                      => last'.code = "ACCOUNT_LOCKED" /\ v = u
      ]_vars

\* a failure, a success that restarts the count, five failures that lock the
\* account, and a login refused while the lock lasts
C8_Witness ==
    /\ last.op = "login"
    /\ last.code = "ACCOUNT_LOCKED"
    /\ users[last.user].status = LOCKED
    /\ users[last.user].failed_login_attempts = MAX_FAILED_LOGIN_ATTEMPTS
    /\ users[last.user].locked_until = now + ACCOUNT_LOCKOUT_DURATION_MINUTES
    /\ \E i, k \in DOMAIN audit_log :
           /\ i < k
           /\ audit_log[i].action = "LOGIN_FAILED"
           /\ audit_log[k].action = "LOGIN_SUCCESS"

\* C9: the first login after locked_until has passed unlocks the account
\* (active, counter 0) and then handles the credentials: a wrong password
\* fails with INVALID_CREDENTIALS leaving the user active with one failed
\* attempt; correct credentials succeed and return a token pair.
C9_LockExpiry ==
    [][\A email \in Emails, password \in Passwords, otp \in OtpCodes(1) \cup {NULL} :
          LET uid == UserByEmail(Lower(email))
          IN (/\ uid # NULL
              /\ authenticate_user(UserLogin(email, password, otp))
              /\ users[uid].status = LOCKED
              /\ users[uid].locked_until # NULL
              /\ ~(users[uid].locked_until > now))
             => LET u == users[uid]
                    v == users'[uid]
                IN IF ~verify_password(password, u.password_hash)
                   THEN /\ last'.code = "INVALID_CREDENTIALS"
                        /\ v.status = ACTIVE
                        /\ v.failed_login_attempts = 1
                   ELSE (\/ ~u.mfa_enabled
                         \/ (otp # NULL
                             /\ verify_mfa_code(u.mfa_secret, otp, u.backup_codes).valid))
                        => /\ last'.code = "OK"
                           /\ last'.token # NULL
                           /\ v.status = ACTIVE
                           /\ v.failed_login_attempts = 0
      ]_vars

\* ---------------------------------------------------------------------- MFA
\* C10: a login of a user with mfa_enabled returns a pair or stores a refresh
\* row only with a valid TOTP or backup code; with the right password and no
\* code it fails with MFA_REQUIRED; with the right password and an invalid
\* code it fails with INVALID_MFA_CODE and appends an MFA_FAILED audit row.
C10_MfaGate ==
    [][\A email \in Emails, password \in Passwords, otp \in OtpCodes(1) \cup {NULL} :
          LET uid == UserByEmail(Lower(email))
          IN (/\ uid # NULL
              /\ authenticate_user(UserLogin(email, password, otp))
              /\ users[uid].mfa_enabled
              /\ users[uid].status = ACTIVE)
             => LET u == users[uid]
                    ok == otp # NULL /\ verify_mfa_code(u.mfa_secret, otp, u.backup_codes).valid
                IN /\ (last'.code = "OK" \/ Len(refresh_tokens') > Len(refresh_tokens))
                      => ok
                   /\ (verify_password(password, u.password_hash) /\ otp = NULL)
                      => last'.code = "MFA_REQUIRED"
                   /\ (verify_password(password, u.password_hash) /\ otp # NULL /\ ~ok)
                      => /\ last'.code = "INVALID_MFA_CODE"
                         /\ audit_log' = Append(audit_log,
                                                AuditRow(uid, "MFA_FAILED", "failure"))
      ]_vars


\* C11: a login of an MFA user with the right password and a stored backup
\* code c (and no valid TOTP) succeeds and removes the hash of c from the
\* user's backup_codes, leaving the other codes; a login presenting a code
\* whose hash is not stored (c again, after its use) fails with
\* INVALID_MFA_CODE.
C11_BackupCodeOneTime ==
    [][\A email \in Emails, password \in Passwords, otp \in OtpCodes(1) :
          LET uid == UserByEmail(Lower(email))
          IN (/\ uid # NULL
              /\ authenticate_user(UserLogin(email, password, otp))
              /\ users[uid].mfa_enabled
              /\ users[uid].status = ACTIVE
              /\ verify_password(password, users[uid].password_hash)
              /\ ~(validate_totp_code_format(otp)
                   /\ verify_totp_code(users[uid].mfa_secret, otp)))
             => LET u == users[uid]
                    v == users'[uid]
                    h == hash_token(RemoveDash(otp))
                IN IF h \in u.backup_codes
                   THEN /\ last'.code = "OK"
                        /\ v.backup_codes = u.backup_codes \ {h}
                   ELSE /\ last'.code = "INVALID_MFA_CODE"
                        /\ v.backup_codes = u.backup_codes
      ]_vars


\* --------------------------------------------------------------------- roles
\* C12: every user holds at least one role at all times; remove_role on a user
\* with exactly one role is refused and removes nothing; remove_role of a held
\* role on a user with two roles succeeds and removes exactly that role.
C12_LastRole ==
    /\ [](\A uid \in DOMAIN users : users[uid].roles # {})
    /\ [][\A uid \in DOMAIN users, role_code \in RoleCodes :
             remove_role(uid, role_code, 2)
             => /\ Cardinality(users[uid].roles) = 1
                   => last'.code # "OK" /\ users' = users
                /\ (Cardinality(users[uid].roles) = 2 /\ role_code \in users[uid].roles)
                   => /\ last'.code = "OK"
                      /\ users'[uid].roles = users[uid].roles \ {role_code}
                      /\ \A other \in DOMAIN users \ {uid} : users'[other] = users[other]
         ]_vars

\* one of two roles was removed, then the removal of the remaining one refused
C12_Witness ==
    /\ last.op = "remove_role"
    /\ last.code = "LAST_ROLE"
    /\ users[last.user].email = "b@x.com"
    /\ Cardinality(users[last.user].roles) = 1
    /\ \E i \in DOMAIN audit_log : audit_log[i].action = "ROLE_REMOVED"

\* ---------------------------------------------------------------------------
\* C13: the response of forgot-password and of resend-verification is the one
\* an unregistered address gets, whether or not the e-mail names a user: the
\* body after a request for a registered address (a reset token or a new
\* verification token was stored) equals the body for an unknown address.
C13_AntiEnumeration ==
    /\ last.op = "request_password_reset" =>
           last.arg = forgot_password_response(NULL)
    /\ last.op = "resend_verification" =>
           last.arg = resend_verification_response(FALSE)

\* a resend just stored a new verification token for a pending account, after
\* forgot-password was served for a registered and for an unknown address
C13_Witness ==
    /\ last.op = "resend_verification"
    /\ \E i \in DOMAIN email_tokens :
           /\ email_tokens[i].used_at = NULL
           /\ \E j \in DOMAIN email_tokens :
                  /\ j < i
                  /\ email_tokens[j].user_id = email_tokens[i].user_id
    /\ \E i, j \in DOMAIN audit_log :
           /\ audit_log[i].action = "PASSWORD_RESET_REQUESTED"
           /\ audit_log[i].status = "success"
           /\ audit_log[j].action = "PASSWORD_RESET_REQUESTED"
           /\ audit_log[j].status = "info"

\* ---------------------------------------------------------------------------
\* C14: a refresh returns a new pair only when the row of the presented token
\* has revoked_at null and expires_at in the future; a row whose revoked_at is
\* set keeps it set through every operation, and no operation removes or
\* replaces a refresh_tokens row.
C14_RevocationPermanent ==
    [][ /\ Len(refresh_tokens') >= Len(refresh_tokens)
        /\ \A i \in DOMAIN refresh_tokens :
               /\ refresh_tokens'[i].token_hash = refresh_tokens[i].token_hash
               /\ refresh_tokens'[i].user_id = refresh_tokens[i].user_id
               /\ refresh_tokens[i].revoked_at # NULL =>
                      refresh_tokens'[i].revoked_at # NULL
        /\ \A tok \in Range(issued_refresh) :
               (refresh_access_token(tok) /\ last'.code = "OK") =>
                   /\ TokenRecord(tok) # NULL
                   /\ refresh_tokens[TokenRecord(tok)].revoked_at = NULL
                   /\ refresh_tokens[TokenRecord(tok)].expires_at > now
      ]_vars

\* a refresh was refused on a row a logout or a device revocation had revoked,
\* while another row has run out unrevoked
C14_Witness ==
    /\ last.op = "refresh"
    /\ last.code = "INVALID_REFRESH_TOKEN"
    /\ \E i \in DOMAIN refresh_tokens :
           /\ refresh_tokens[i].jti = last.arg
           /\ refresh_tokens[i].revoked_at # NULL
    /\ \E i \in DOMAIN refresh_tokens :
           /\ refresh_tokens[i].revoked_at = NULL
           /\ ~(refresh_tokens[i].expires_at > now)
    /\ \E i \in DOMAIN audit_log :
           audit_log[i].action \in {"LOGOUT", "SESSION_REVOKED", "ALL_SESSIONS_REVOKED"}

\* ---------------------------------------------------------------------------
\* C15: rotation is atomic. In every committed state, the new row of a refresh
\* is stored exactly when the row of the token presented to that refresh is
\* revoked: every token a refresh returned has its row and the row of the
\* token it was returned for is revoked, and every revoked row (rotation is
\* the only revoker here) has the row of a token returned for it.
C15_RotationAtomic ==
    /\ \A j \in DOMAIN returned_for :
           returned_for[j] # NULL =>
               /\ \E i \in DOMAIN refresh_tokens : refresh_tokens[i].jti = j
               /\ \E i \in DOMAIN refresh_tokens :
                      /\ refresh_tokens[i].jti = returned_for[j]
                      /\ refresh_tokens[i].revoked_at # NULL
    /\ \A i \in DOMAIN refresh_tokens :
           refresh_tokens[i].revoked_at # NULL =>
               \E j \in DOMAIN returned_for :
                   /\ returned_for[j] = refresh_tokens[i].jti
                   /\ \E k \in DOMAIN refresh_tokens : refresh_tokens[k].jti = j

\* one request rotated a token and another, holding the same token, was
\* aborted after its checks
C15_Witness ==
    /\ \E c, d \in Callers :
           /\ inflight[c].stage = "done" /\ inflight[c].code = "OK"
           /\ inflight[d].stage = "done" /\ inflight[d].code = "ABORTED"
           /\ inflight[c].tok = inflight[d].tok
    /\ last.op = "refresh"
    /\ last.code = "ABORTED"
    /\ \E i \in DOMAIN refresh_tokens :
           /\ refresh_tokens[i].jti = last.arg
           /\ refresh_tokens[i].revoked_at # NULL

\* ---------------------------------------------------------------------------
\* C16: reset_password with an unknown, used or expired token fails with
\* INVALID_TOKEN whatever the password (the token is checked first); with a
\* valid token and a weak password it fails with WEAK_PASSWORD; a failure
\* leaves users, the reset tokens and the refresh tokens as they were; a
\* reset succeeds only on an unused token, which it marks used for good.
ResetTokenValid(token) ==
    \E i \in DOMAIN reset_tokens :
        /\ reset_tokens[i].token_hash = hash_token(token)
        /\ reset_tokens[i].used_at = NULL
        /\ reset_tokens[i].expires_at > now

C16_ResetErrors ==
    [][ \A n \in 1..(Len(reset_tokens) + 1), new \in Passwords :
            reset_password(generate_secure_token(n), new) =>
                /\ ~ResetTokenValid(generate_secure_token(n)) =>
                       last'.code = "INVALID_TOKEN"
                /\ (ResetTokenValid(generate_secure_token(n))
                       /\ ~validate_password_strength(new)) =>
                       last'.code = "WEAK_PASSWORD"
                /\ last'.code # "OK" =>
                       UNCHANGED <<users, reset_tokens, refresh_tokens>>
                /\ last'.code = "OK" =>
                       /\ ResetTokenValid(generate_secure_token(n))
                       /\ \A i \in DOMAIN reset_tokens :
                              reset_tokens[i].token_hash =
                                  hash_token(generate_secure_token(n)) =>
                                  reset_tokens'[i].used_at # NULL
      ]_vars

\* ---------------------------------------------------------------------------
\* C17: e-mail verification is single-use. verify_email with an unused,
\* unexpired token marks the token used and makes the user verified and
\* active; with any other token (unknown, used before, expired) it fails with
\* INVALID_TOKEN and changes no user and no token; a token once used stays used.
EmailTokenValid(token) ==
    \E i \in DOMAIN email_tokens :
        /\ email_tokens[i].token_hash = hash_token(token)
        /\ email_tokens[i].used_at = NULL
        /\ email_tokens[i].expires_at > now

C17_VerifySingleUse ==
    [][ /\ \A i \in DOMAIN email_tokens :
               email_tokens[i].used_at # NULL => email_tokens'[i].used_at # NULL
        /\ \A n \in 1..(Len(email_tokens) + 1) :
               verify_email(EmailToken(n)) =>
                   IF EmailTokenValid(EmailToken(n))
                   THEN /\ last'.code = "OK"
                        /\ \A i \in DOMAIN email_tokens :
                               email_tokens[i].token_hash = hash_token(EmailToken(n)) =>
                                   /\ email_tokens'[i].used_at # NULL
                                   /\ users'[email_tokens[i].user_id].is_email_verified
                                   /\ users'[email_tokens[i].user_id].status = ACTIVE
                   ELSE /\ last'.code = "INVALID_TOKEN"
                        /\ UNCHANGED <<users, email_tokens>>
      ]_vars

\* the token that verified a newly registered account was presented again and
\* refused
C17_Witness ==
    /\ last.op = "verify_email"
    /\ last.code = "INVALID_TOKEN"
    /\ \E i \in DOMAIN email_tokens :
           /\ email_tokens[i].token_hash = hash_token(last.arg)
           /\ email_tokens[i].user_id > 1
           /\ email_tokens[i].used_at # NULL
           /\ users[email_tokens[i].user_id].is_email_verified
           /\ \E k \in DOMAIN audit_log :
                  /\ k > 2
                  /\ audit_log[k].action = "EMAIL_VERIFIED"

\* ---------------------------------------------------------------------------
\* C18: a pending user never obtains tokens. Every login for a user whose
\* status is pending, with the right or a wrong password, fails with
\* EMAIL_NOT_VERIFIED, leaves the users rows (failed_login_attempts, status)
\* unchanged and hands out and stores no token; no refresh_tokens row belongs
\* to a pending user.
C18_PendingNoTokens ==
    [][ /\ \A email \in Pending, password \in Passwords :
               ( /\ UserByEmail(email) # NULL
                 /\ users[UserByEmail(email)].status = PENDING
                 /\ authenticate_user(UserLogin(email, password, NULL)) ) =>
                   /\ last'.code = "EMAIL_NOT_VERIFIED"
                   /\ UNCHANGED <<users, refresh_tokens, issued_refresh, issued_access>>
        /\ \A i \in DOMAIN refresh_tokens' :
               users'[refresh_tokens'[i].user_id].status # PENDING
      ]_vars

\* a login of a registered, still pending account was refused; its counter is
\* zero and it has no refresh_tokens row
C18_Witness ==
    /\ last.op = "login"
    /\ last.code = "EMAIL_NOT_VERIFIED"
    /\ last.user \in DOMAIN users
    /\ users[last.user].status = PENDING
    /\ users[last.user].failed_login_attempts = 0
    /\ \A i \in DOMAIN refresh_tokens : refresh_tokens[i].user_id # last.user

\* ---------------------------------------------------------------------------
\* C19: each user has at most one unused password-reset token and at most one
\* unused e-mail-verification token; once a newer token of a kind was issued
\* to a user, an earlier raw token of that kind fails with INVALID_TOKEN.
UnusedResetTokens(uid) ==
    {i \in DOMAIN reset_tokens :
        reset_tokens[i].user_id = uid /\ reset_tokens[i].used_at = NULL}
UnusedEmailTokens(uid) ==
    {i \in DOMAIN email_tokens :
        email_tokens[i].user_id = uid /\ email_tokens[i].used_at = NULL}

C19_OneUnusedToken ==
    [][ /\ \A uid \in DOMAIN users' :
               /\ Cardinality(UnusedResetTokens(uid)') <= 1
               /\ Cardinality(UnusedEmailTokens(uid)') <= 1
        /\ \A n \in DOMAIN reset_tokens, new \in Passwords :
               ( /\ \E m \in DOMAIN reset_tokens :
                        m > n /\ reset_tokens[m].user_id = reset_tokens[n].user_id
                 /\ reset_password(generate_secure_token(n), new) ) =>
                   last'.code = "INVALID_TOKEN"
        /\ \A n \in DOMAIN email_tokens :
               ( /\ \E m \in DOMAIN email_tokens :
                        m > n /\ email_tokens[m].user_id = email_tokens[n].user_id
                 /\ verify_email(EmailToken(n)) ) =>
                   last'.code = "INVALID_TOKEN"
      ]_vars

\* ---------------------------------------------------------------------------
\* C20: logout revokes only the presented session. logout(u, R) appends a
\* LOGOUT audit row, sets revoked_at on the row of R when that row belongs to
\* u and changes no other row (so a token of another user is not revoked); a
\* later refresh with a token that was valid when it was logged out fails with
\* INVALID_REFRESH_TOKEN and changes no refresh_tokens row.
LoggedOut(jti) ==
    /\ \E i \in DOMAIN refresh_tokens :
           refresh_tokens[i].jti = jti /\ refresh_tokens[i].revoked_at # NULL
    /\ \A j \in DOMAIN returned_for : returned_for[j] # jti

C20_LogoutOneSession ==
    [][ /\ \A uid \in DOMAIN users, tok \in Range(issued_refresh) :
               logout(uid, {tok}) =>
                   /\ audit_log' = Append(audit_log, AuditRow(uid, "LOGOUT", "success"))
                   /\ \A i \in DOMAIN refresh_tokens :
                          IF refresh_tokens[i].jti = tok.jti /\ refresh_tokens[i].user_id = uid
                          THEN refresh_tokens'[i] =
                                   [refresh_tokens[i] EXCEPT !.revoked_at = now]
                          ELSE refresh_tokens'[i] = refresh_tokens[i]
        /\ \A tok \in Range(issued_refresh) :
               (LoggedOut(tok.jti) /\ refresh_access_token(tok)) =>
                   /\ last'.code = "INVALID_REFRESH_TOKEN"
                   /\ UNCHANGED refresh_tokens
      ]_vars

\* a refresh with a logged-out token was refused while another session of the
\* same user and a session of the other user are still valid
C20_Witness ==
    /\ last.op = "refresh"
    /\ last.code = "INVALID_REFRESH_TOKEN"
    /\ LoggedOut(last.arg)
    /\ \E k \in DOMAIN audit_log :
           audit_log[k].action = "LOGOUT" /\ audit_log[k].user_id = last.user
    /\ \E i \in DOMAIN refresh_tokens :
           refresh_tokens[i].user_id = last.user /\ is_valid(refresh_tokens[i])
    /\ \E i \in DOMAIN refresh_tokens :
           refresh_tokens[i].user_id # last.user /\ is_valid(refresh_tokens[i])

\* ---------------------------------------------------------------------------
\* C21: password_version is a monotonic fencing counter. A new user starts at
\* 1; no step lowers a user's version; a step changes it only by adding 1, and
\* only a successful reset_password, change_password or login that rehashes,
\* each of which does add 1; every token a login or refresh hands out carries
\* the version the same step commits for its user.
Succeeded(op) ==
    /\ last'.op = op
    /\ last'.code = "OK"
    /\ (Len(audit_log') > Len(audit_log) \/ Len(refresh_tokens') > Len(refresh_tokens))

C21_VersionMonotonic ==
    [][ /\ \A u \in DOMAIN users' \ DOMAIN users : users'[u].password_version = 1
        /\ \A u \in DOMAIN users :
              /\ users'[u].password_version >= users[u].password_version
              /\ users'[u].password_version # users[u].password_version =>
                    /\ users'[u].password_version = users[u].password_version + 1
                    /\ last'.user = u
                    /\ \/ Succeeded("reset_password")
                       \/ Succeeded("change_password")
                       \/ Succeeded("login") /\ needs_rehash(users[u].password_hash)
              /\ ( /\ last'.user = u
                   /\ \/ Succeeded("reset_password")
                      \/ Succeeded("change_password")
                      \/ Succeeded("login") /\ needs_rehash(users[u].password_hash) ) =>
                    users'[u].password_version = users[u].password_version + 1
        /\ \A j \in DOMAIN issued_refresh' \ DOMAIN issued_refresh :
              issued_refresh'[j].ver = users'[issued_refresh'[j].sub].password_version
        /\ \A tok \in issued_access' \ issued_access :
              tok.ver = users'[tok.sub].password_version
      ]_vars

\* a login rehashed the outdated hash, the password was changed afterwards, and
\* a login then handed out a token with the third version
C21_Witness ==
    /\ last.op = "login"
    /\ last.code = "OK"
    /\ users[last.user].password_version = 3
    /\ ~needs_rehash(users[last.user].password_hash)
    /\ \E j \in DOMAIN issued_refresh : issued_refresh[j].ver = 2
    /\ issued_refresh[last.token].ver = 3
    /\ \E k \in DOMAIN audit_log :
           audit_log[k].action \in {"PASSWORD_CHANGED", "PASSWORD_RESET"}

\* ---------------------------------------------------------------------------
\* C22: the audit log is append-only. Every step leaves every audit row that
\* exists unchanged in all its fields and at most appends rows.
C22_AuditAppendOnly ==
    [][ /\ Len(audit_log') >= Len(audit_log)
        /\ \A i \in DOMAIN audit_log : audit_log'[i] = audit_log[i]
      ]_vars

\* ---------------------------------------------------------------------------
\* C23: the device list of a user is exactly the user's refresh rows that are
\* not revoked and not expired; revoke_all_sessions empties that list, returns
\* the number of sessions that were listed just before the call and changes no
\* row of another user; revoke_session revokes a row only when it is the
\* caller's.
C23_SessionManagement ==
    [][ /\ \A u \in DOMAIN users :
            (last'.op = "revoke_all_sessions" /\ last'.user = u
                /\ Len(audit_log') > Len(audit_log)) =>
                /\ get_active_sessions(u)' = {}
                /\ last'.arg = Cardinality(get_active_sessions(u))
                /\ \A i \in DOMAIN refresh_tokens :
                       refresh_tokens[i].user_id # u =>
                           refresh_tokens'[i] = refresh_tokens[i]
        /\ (last'.op = "revoke_session") =>
            \A i \in DOMAIN refresh_tokens :
                refresh_tokens'[i] # refresh_tokens[i] =>
                    i = last'.arg /\ refresh_tokens[i].user_id = last'.user
      ]_vars

C25_AdminLockHolds ==
    [][ /\ \A u \in DOMAIN users :
             (last'.op = "update_user_status" /\ last'.user = u
                 /\ last'.code # "USER_NOT_FOUND" /\ last'.arg = LOCKED) =>
                 users'[u].status = LOCKED /\ users'[u].locked_until = users[u].locked_until
        /\ \A u \in DOMAIN users :
             (users[u].status = LOCKED /\ users[u].locked_until = NULL) =>
                 /\ (last'.op = "login" /\ last'.user = u) => last'.code = "ACCOUNT_LOCKED"
                 /\ users'[u].status # LOCKED => last'.op = "update_user_status"
      ]_vars

\* ---------------------------------------------------------------------------
\* C26: the lockout holds when wrong-password logins of one user interleave:
\* the counter equals the number of wrong-password attempts completed since
\* the user's last successful login, a user with 5 such attempts is locked,
\* and never more than 5 of them are evaluated.
FailedSinceSuccess(u) ==
    LET ok == {i \in DOMAIN audit_log :
                  audit_log[i].user_id = u /\ audit_log[i].action = "LOGIN_SUCCESS"}
    IN Cardinality({i \in DOMAIN audit_log :
           /\ audit_log[i].user_id = u
           /\ audit_log[i].action = "LOGIN_FAILED"
           /\ \A j \in ok : j < i})

C26_LockoutUnderConcurrency ==
    \A u \in DOMAIN users :
        /\ users[u].failed_login_attempts = FailedSinceSuccess(u)
        /\ FailedSinceSuccess(u) >= MAX_FAILED_LOGIN_ATTEMPTS => users[u].status = LOCKED
        /\ FailedSinceSuccess(u) <= MAX_FAILED_LOGIN_ATTEMPTS

C29_RefreshNeedsActive ==
    [][\A tok \in Range(issued_refresh) :
          (/\ refresh_access_token(tok)
           /\ TokenRecord(tok) # NULL
           /\ is_valid(refresh_tokens[TokenRecord(tok)]))
          => /\ users[tok.sub].status # ACTIVE =>
                   /\ last'.code = "ACCOUNT_NOT_ACTIVE"
                   /\ refresh_tokens' = refresh_tokens
                   /\ refresh_tokens[TokenRecord(tok)].replaced_by = NULL
                   /\ issued_refresh' = issued_refresh
                   /\ issued_access' = issued_access
             /\ (users[tok.sub].status = ACTIVE
                    /\ tok.ver = users[tok.sub].password_version) =>
                   /\ last'.code = "OK"
                   /\ Len(refresh_tokens') = Len(refresh_tokens) + 1
      ]_vars

\* a refresh was just refused for user 1, locked by wrong passwords, and the
\* row of the token it presented is still valid and not replaced
C29_Witness ==
    /\ last.op = "refresh" /\ last.code = "ACCOUNT_NOT_ACTIVE" /\ last.user = 1
    /\ users[1].status = LOCKED
    /\ \E i \in DOMAIN refresh_tokens :
          /\ refresh_tokens[i].jti = last.arg
          /\ is_valid(refresh_tokens[i])
          /\ refresh_tokens[i].replaced_by = NULL

====
